---- MODULE Spec2Model ----
(***************************************************************************)
(* A model of the unit-normalisation and recipe-costing engine of          *)
(* shared/recipeCostCalculator.ts.                                         *)
(*                                                                         *)
(* Text values (units, quantities, prices, factors) are sequences of       *)
(* one-character strings, so that toLowerCase, trim, split, parseFloat and *)
(* the regular expression of parseFraction are computed character by       *)
(* character as the JavaScript does.                                       *)
(*                                                                         *)
(* JavaScript numbers are modelled as exact rationals [n, d] in lowest     *)
(* terms with d > 0, extended with Infinity = [1,0], -Infinity = [-1,0]    *)
(* and NaN = [0,0].  The rounding of IEEE doubles is not modelled: a       *)
(* product such as 12 * 0.2 is the exact 12/5 here.                        *)
(***************************************************************************)
EXTENDS Integers, Sequences, FiniteSets, TLC

VARIABLES
  ingredients,        \* the lines handed to the engine (RecipeIngredientWithInventory[])
  customConversions,  \* the custom conversions handed to the engine (UnitConversion[])
  unit1,              \* first unit text handed to the unit resolver
  unit2,              \* second unit text handed to the unit resolver
  str,                \* the text handed to parseFraction
  itemName,           \* the item name handed to suggestConversionFactor
  formData,           \* the inventory dialog's form, null while it is closed
  portionCount,       \* the dialog's "number of portions" field
  portionUnit,        \* the dialog's "portion unit name" field
  pc,                 \* which function is running / has returned
  idx,                \* position of the running for-of loop (next line to visit)
  totalCost,          \* accumulator of calculateRecipeCost
  warnings,           \* accumulator of detectUnitMismatches
  ret                 \* the value returned by the last completed call

vars == <<ingredients, customConversions, unit1, unit2, str, itemName,
          formData, portionCount, portionUnit, pc, idx, totalCost, warnings, ret>>

----------------------------------------------------------------------------
(* Numbers *)

RECURSIVE GCD(_, _)
GCD(a, b) == IF b = 0 THEN a ELSE GCD(b, a % b)

Abs(x) == IF x < 0 THEN -x ELSE x

Sign(x) == IF x < 0 THEN -1 ELSE IF x > 0 THEN 1 ELSE 0

\* n/d with the common divisor g taken out and the sign carried by n
reduced(n, d, g) == [n |-> Sign(d) * (n \div g), d |-> Abs(d) \div g]

\* The number n/d in lowest terms; d = 0 gives Infinity, -Infinity or NaN.
Rat(n, d) ==
  IF d = 0 THEN [n |-> Sign(n), d |-> 0]
  ELSE reduced(n, d, GCD(Abs(n), Abs(d)))

Zero == Rat(0, 1)
One == Rat(1, 1)
NaN == Rat(0, 0)
Infinity == Rat(1, 0)

\* The function Object: what a lookup of the key constructor in an object
\* literal finds, inherited from Object.prototype.
ObjectFunction == [function |-> "Object"]

\* the number an operand of an arithmetic operator is converted to: a
\* function becomes NaN, a number is itself
toNumber(v) == IF v = ObjectFunction THEN NaN ELSE v

isNaN(x) == toNumber(x) = NaN

\* the product of two finite numbers
mulFinite(a, b) == Rat(a.n * b.n, a.d * b.d)

\* the product of two numbers, cancelling across before multiplying
mulNumbers(x, y) ==
  IF x.d = 0 \/ y.d = 0 THEN Rat(x.n * y.n, 0)
  ELSE mulFinite(Rat(x.n, y.d), Rat(y.n, x.d))

\* x * y
Mul(x, y) == mulNumbers(toNumber(x), toNumber(y))

\* 1 / y for a number y
reciprocal(y) == Rat(y.d, y.n)

\* x / y: 1/0 is Infinity, 0/0 and Infinity/Infinity are NaN.
Div(x, y) == Mul(x, reciprocal(toNumber(y)))

\* the sum of two finite numbers whose denominators have g as a common divisor
addFinite(x, y, g) ==
  Rat(x.n * (y.d \div g) + y.n * (x.d \div g), (x.d \div g) * y.d)

\* the sum of two numbers: Infinity + (-Infinity) and anything + NaN are NaN
addNumbers(x, y) ==
  IF isNaN(x) \/ isNaN(y) THEN NaN
  ELSE IF x.d = 0 /\ y.d = 0 THEN (IF x.n = y.n THEN x ELSE NaN)
  ELSE IF x.d = 0 THEN x
  ELSE IF y.d = 0 THEN y
  ELSE addFinite(x, y, GCD(x.d, y.d))

\* x + y for operands that are numbers or functions converted to NaN
Add(x, y) == addNumbers(toNumber(x), toNumber(y))

\* x >= 0 for a number that is not NaN
NonNegative(x) == x.n >= 0

----------------------------------------------------------------------------
(* Text *)

UpperCase == <<"A", "B", "C", "D", "E", "F", "G", "H", "I", "J", "K", "L", "M",
               "N", "O", "P", "Q", "R", "S", "T", "U", "V", "W", "X", "Y", "Z">>
LowerCase == <<"a", "b", "c", "d", "e", "f", "g", "h", "i", "j", "k", "l", "m",
               "n", "o", "p", "q", "r", "s", "t", "u", "v", "w", "x", "y", "z">>

lowerChar(c) ==
  IF \E k \in 1..Len(UpperCase) : UpperCase[k] = c
  THEN LowerCase[CHOOSE k \in 1..Len(UpperCase) : UpperCase[k] = c]
  ELSE c

\* String.prototype.toLowerCase
toLowerCase(s) == [k \in 1..Len(s) |-> lowerChar(s[k])]

isWhitespace(c) == c \in {" ", "\t", "\n"}

RECURSIVE trimStart(_)
trimStart(s) ==
  IF s # <<>> /\ isWhitespace(Head(s)) THEN trimStart(Tail(s)) ELSE s

RECURSIVE trimEnd(_)
trimEnd(s) ==
  IF s # <<>> /\ isWhitespace(s[Len(s)]) THEN trimEnd(SubSeq(s, 1, Len(s) - 1)) ELSE s

\* a trim that strips one blank at most from either end
trim_once(s) ==
  SubSeq(s, IF s # <<>> /\ isWhitespace(Head(s)) THEN 2 ELSE 1,
            IF Len(s) > 1 /\ isWhitespace(s[Len(s)]) THEN Len(s) - 1 ELSE Len(s))

\* String.prototype.trim
trim(s) == trimEnd(trimStart(s))

\* String.prototype.includes for a one-character needle
includes(s, c) == \E k \in 1..Len(s) : s[k] = c

\* Array.prototype.includes
arrayIncludes(arr, x) == \E k \in 1..Len(arr) : arr[k] = x

\* String.prototype.split for a one-character separator
RECURSIVE split(_, _)
split(s, c) ==
  IF ~includes(s, c) THEN <<s>>
  ELSE LET k == CHOOSE j \in 1..Len(s) : s[j] = c /\ \A h \in 1..(j - 1) : s[h] # c
       IN  <<SubSeq(s, 1, k - 1)>> \o split(SubSeq(s, k + 1, Len(s)), c)

Digits == <<"0", "1", "2", "3", "4", "5", "6", "7", "8", "9">>

isDigit(c) == \E k \in 1..Len(Digits) : Digits[k] = c

digitValue(c) == (CHOOSE k \in 1..Len(Digits) : Digits[k] = c) - 1

\* length of the longest prefix of s made of digits
RECURSIVE digitPrefixLen(_)
digitPrefixLen(s) ==
  IF s # <<>> /\ isDigit(Head(s)) THEN 1 + digitPrefixLen(Tail(s)) ELSE 0

\* the value of a sequence of digits (0 for the empty one)
RECURSIVE digitsValue(_)
digitsValue(s) ==
  IF s = <<>> THEN 0
  ELSE 10 * digitsValue(SubSeq(s, 1, Len(s) - 1)) + digitValue(s[Len(s)])

RECURSIVE pow10(_)
pow10(k) == IF k = 0 THEN 1 ELSE 10 * pow10(k - 1)

\* the number written intDigits . fracDigits; NaN when there is no digit at all
decimalValue(intDigits, fracDigits) ==
  IF intDigits = <<>> /\ fracDigits = <<>> THEN NaN
  ELSE Rat(digitsValue(intDigits) * pow10(Len(fracDigits)) + digitsValue(fracDigits),
           pow10(Len(fracDigits)))

\* the digits that follow a decimal point at the head of s (none without one)
fractionDigits(s) ==
  IF s # <<>> /\ Head(s) = "."
  THEN SubSeq(Tail(s), 1, digitPrefixLen(Tail(s)))
  ELSE <<>>

\* the unsigned decimal at the head of body, whose first intLen characters
\* are its integer digits
parseUnsigned(body, intLen) ==
  decimalValue(SubSeq(body, 1, intLen), fractionDigits(SubSeq(body, intLen + 1, Len(body))))

negate(x) == Rat(-x.n, x.d)

\* the decimal at the head of t, with its optional sign
parseSigned(t) ==
  IF t # <<>> /\ Head(t) = "-" THEN negate(parseUnsigned(Tail(t), digitPrefixLen(Tail(t))))
  ELSE IF t # <<>> /\ Head(t) = "+" THEN parseUnsigned(Tail(t), digitPrefixLen(Tail(t)))
  ELSE parseUnsigned(t, digitPrefixLen(t))

\* The global parseFloat: leading whitespace is skipped, then the longest
\* prefix of the form [+-] digits [. digits] is read; NaN when that prefix
\* has no digit.  Exponents and the literal "Infinity" are outside the
\* texts this model draws.
parseFloat(s) == parseSigned(trimStart(s))

----------------------------------------------------------------------------
(* Unit Resolver *)

\* the table with the alias c listed for can as well as for cup
UNIT_ALIASES_sharedAlias ==
  <<
    [canonical |-> <<"g">>,
     aliases |-> << <<"g">>,
                    <<"g", "r">>,
                    <<"g", "r", "a", "m">>,
                    <<"g", "r", "a", "m", "s">>,
                    <<"g", "m">> >>],
    [canonical |-> <<"k", "g">>,
     aliases |-> << <<"k", "g">>,
                    <<"k", "i", "l", "o">>,
                    <<"k", "i", "l", "o", "g", "r", "a", "m">>,
                    <<"k", "i", "l", "o", "g", "r", "a", "m", "s">> >>],
    [canonical |-> <<"m", "l">>,
     aliases |-> << <<"m", "l">>,
                    <<"m", "i", "l", "l", "i", "l", "i", "t", "e", "r">>,
                    <<"m", "i", "l", "l", "i", "l", "i", "t", "r", "e">>,
                    <<"m", "i", "l", "l", "i", "l", "i", "t", "e", "r", "s">>,
                    <<"m", "i", "l", "l", "i", "l", "i", "t", "r", "e", "s">> >>],
    [canonical |-> <<"l">>,
     aliases |-> << <<"l">>,
                    <<"l", "i", "t", "e", "r">>,
                    <<"l", "i", "t", "r", "e">>,
                    <<"l", "i", "t", "e", "r", "s">>,
                    <<"l", "i", "t", "r", "e", "s">> >>],
    [canonical |-> <<"u", "n", "i", "t">>,
     aliases |-> << <<"u", "n", "i", "t">>,
                    <<"u", "n", "i", "t", "s">>,
                    <<"e", "a">>,
                    <<"e", "a", "c", "h">>,
                    <<"p", "i", "e", "c", "e">>,
                    <<"p", "i", "e", "c", "e", "s">>,
                    <<"p", "c">>,
                    <<"p", "c", "s">> >>],
    [canonical |-> <<"c", "u", "p">>,
     aliases |-> << <<"c", "u", "p">>,
                    <<"c", "u", "p", "s">>,
                    <<"c">> >>],
    [canonical |-> <<"t", "b", "s", "p">>,
     aliases |-> << <<"t", "b", "s", "p">>,
                    <<"t", "a", "b", "l", "e", "s", "p", "o", "o", "n">>,
                    <<"t", "a", "b", "l", "e", "s", "p", "o", "o", "n", "s">>,
                    <<"t", "b", "s">> >>],
    [canonical |-> <<"t", "s", "p">>,
     aliases |-> << <<"t", "s", "p">>,
                    <<"t", "e", "a", "s", "p", "o", "o", "n">>,
                    <<"t", "e", "a", "s", "p", "o", "o", "n", "s">> >>],
    [canonical |-> <<"o", "z">>,
     aliases |-> << <<"o", "z">>,
                    <<"o", "u", "n", "c", "e">>,
                    <<"o", "u", "n", "c", "e", "s">> >>],
    [canonical |-> <<"l", "b">>,
     aliases |-> << <<"l", "b">>,
                    <<"l", "b", "s">>,
                    <<"p", "o", "u", "n", "d">>,
                    <<"p", "o", "u", "n", "d", "s">> >>],
    [canonical |-> <<"b", "u", "n", "c", "h">>,
     aliases |-> << <<"b", "u", "n", "c", "h">>,
                    <<"b", "u", "n", "c", "h", "e", "s">> >>],
    [canonical |-> <<"h", "e", "a", "d">>,
     aliases |-> << <<"h", "e", "a", "d">>,
                    <<"h", "e", "a", "d", "s">> >>],
    [canonical |-> <<"c", "l", "o", "v", "e">>,
     aliases |-> << <<"c", "l", "o", "v", "e">>,
                    <<"c", "l", "o", "v", "e", "s">> >>],
    [canonical |-> <<"c", "a", "n">>,
     aliases |-> << <<"c", "a", "n">>,
                    <<"c", "a", "n", "s">>,
                    <<"t", "i", "n">>,
                    <<"t", "i", "n", "s">>,
                    <<"c">> >>],
    [canonical |-> <<"b", "o", "t", "t", "l", "e">>,
     aliases |-> << <<"b", "o", "t", "t", "l", "e">>,
                    <<"b", "o", "t", "t", "l", "e", "s">> >>],
    [canonical |-> <<"j", "a", "r">>,
     aliases |-> << <<"j", "a", "r">>,
                    <<"j", "a", "r", "s">> >>],
    [canonical |-> <<"p", "a", "c", "k">>,
     aliases |-> << <<"p", "a", "c", "k">>,
                    <<"p", "a", "c", "k", "s">>,
                    <<"p", "a", "c", "k", "e", "t">>,
                    <<"p", "a", "c", "k", "e", "t", "s">> >>],
    [canonical |-> <<"b", "o", "x">>,
     aliases |-> << <<"b", "o", "x">>,
                    <<"b", "o", "x", "e", "s">> >>],
    [canonical |-> <<"b", "a", "g">>,
     aliases |-> << <<"b", "a", "g">>,
                    <<"b", "a", "g", "s">> >>],
    [canonical |-> <<"s", "l", "i", "c", "e">>,
     aliases |-> << <<"s", "l", "i", "c", "e">>,
                    <<"s", "l", "i", "c", "e", "s">> >>]
  >>

UNIT_ALIASES ==
  <<
    [canonical |-> <<"g">>,
     aliases |-> << <<"g">>,
                    <<"g", "r">>,
                    <<"g", "r", "a", "m">>,
                    <<"g", "r", "a", "m", "s">>,
                    <<"g", "m">> >>],
    [canonical |-> <<"k", "g">>,
     aliases |-> << <<"k", "g">>,
                    <<"k", "i", "l", "o">>,
                    <<"k", "i", "l", "o", "g", "r", "a", "m">>,
                    <<"k", "i", "l", "o", "g", "r", "a", "m", "s">> >>],
    [canonical |-> <<"m", "l">>,
     aliases |-> << <<"m", "l">>,
                    <<"m", "i", "l", "l", "i", "l", "i", "t", "e", "r">>,
                    <<"m", "i", "l", "l", "i", "l", "i", "t", "r", "e">>,
                    <<"m", "i", "l", "l", "i", "l", "i", "t", "e", "r", "s">>,
                    <<"m", "i", "l", "l", "i", "l", "i", "t", "r", "e", "s">> >>],
    [canonical |-> <<"l">>,
     aliases |-> << <<"l">>,
                    <<"l", "i", "t", "e", "r">>,
                    <<"l", "i", "t", "r", "e">>,
                    <<"l", "i", "t", "e", "r", "s">>,
                    <<"l", "i", "t", "r", "e", "s">> >>],
    [canonical |-> <<"u", "n", "i", "t">>,
     aliases |-> << <<"u", "n", "i", "t">>,
                    <<"u", "n", "i", "t", "s">>,
                    <<"e", "a">>,
                    <<"e", "a", "c", "h">>,
                    <<"p", "i", "e", "c", "e">>,
                    <<"p", "i", "e", "c", "e", "s">>,
                    <<"p", "c">>,
                    <<"p", "c", "s">> >>],
    [canonical |-> <<"c", "u", "p">>,
     aliases |-> << <<"c", "u", "p">>,
                    <<"c", "u", "p", "s">>,
                    <<"c">> >>],
    [canonical |-> <<"t", "b", "s", "p">>,
     aliases |-> << <<"t", "b", "s", "p">>,
                    <<"t", "a", "b", "l", "e", "s", "p", "o", "o", "n">>,
                    <<"t", "a", "b", "l", "e", "s", "p", "o", "o", "n", "s">>,
                    <<"t", "b", "s">> >>],
    [canonical |-> <<"t", "s", "p">>,
     aliases |-> << <<"t", "s", "p">>,
                    <<"t", "e", "a", "s", "p", "o", "o", "n">>,
                    <<"t", "e", "a", "s", "p", "o", "o", "n", "s">> >>],
    [canonical |-> <<"o", "z">>,
     aliases |-> << <<"o", "z">>,
                    <<"o", "u", "n", "c", "e">>,
                    <<"o", "u", "n", "c", "e", "s">> >>],
    [canonical |-> <<"l", "b">>,
     aliases |-> << <<"l", "b">>,
                    <<"l", "b", "s">>,
                    <<"p", "o", "u", "n", "d">>,
                    <<"p", "o", "u", "n", "d", "s">> >>],
    [canonical |-> <<"b", "u", "n", "c", "h">>,
     aliases |-> << <<"b", "u", "n", "c", "h">>,
                    <<"b", "u", "n", "c", "h", "e", "s">> >>],
    [canonical |-> <<"h", "e", "a", "d">>,
     aliases |-> << <<"h", "e", "a", "d">>,
                    <<"h", "e", "a", "d", "s">> >>],
    [canonical |-> <<"c", "l", "o", "v", "e">>,
     aliases |-> << <<"c", "l", "o", "v", "e">>,
                    <<"c", "l", "o", "v", "e", "s">> >>],
    [canonical |-> <<"c", "a", "n">>,
     aliases |-> << <<"c", "a", "n">>,
                    <<"c", "a", "n", "s">>,
                    <<"t", "i", "n">>,
                    <<"t", "i", "n", "s">> >>],
    [canonical |-> <<"b", "o", "t", "t", "l", "e">>,
     aliases |-> << <<"b", "o", "t", "t", "l", "e">>,
                    <<"b", "o", "t", "t", "l", "e", "s">> >>],
    [canonical |-> <<"j", "a", "r">>,
     aliases |-> << <<"j", "a", "r">>,
                    <<"j", "a", "r", "s">> >>],
    [canonical |-> <<"p", "a", "c", "k">>,
     aliases |-> << <<"p", "a", "c", "k">>,
                    <<"p", "a", "c", "k", "s">>,
                    <<"p", "a", "c", "k", "e", "t">>,
                    <<"p", "a", "c", "k", "e", "t", "s">> >>],
    [canonical |-> <<"b", "o", "x">>,
     aliases |-> << <<"b", "o", "x">>,
                    <<"b", "o", "x", "e", "s">> >>],
    [canonical |-> <<"b", "a", "g">>,
     aliases |-> << <<"b", "a", "g">>,
                    <<"b", "a", "g", "s">> >>],
    [canonical |-> <<"s", "l", "i", "c", "e">>,
     aliases |-> << <<"s", "l", "i", "c", "e">>,
                    <<"s", "l", "i", "c", "e", "s">> >>]
  >>

STANDARD_CONVERSIONS ==
  <<
    [from |-> <<"g">>, to |-> <<"k", "g">>, factor |-> Rat(1, 1000)],  \* g -> kg : 0.001
    [from |-> <<"g">>, to |-> <<"o", "z">>, factor |-> Rat(3527, 100000)],  \* g -> oz : 0.03527
    [from |-> <<"k", "g">>, to |-> <<"g">>, factor |-> Rat(1000, 1)],  \* kg -> g : 1000
    [from |-> <<"k", "g">>, to |-> <<"l", "b">>, factor |-> Rat(220462, 100000)],  \* kg -> lb : 2.20462
    [from |-> <<"m", "l">>, to |-> <<"l">>, factor |-> Rat(1, 1000)],  \* ml -> l : 0.001
    [from |-> <<"m", "l">>, to |-> <<"c", "u", "p">>, factor |-> Rat(423, 100000)],  \* ml -> cup : 0.00423
    [from |-> <<"l">>, to |-> <<"m", "l">>, factor |-> Rat(1000, 1)],  \* l -> ml : 1000
    [from |-> <<"l">>, to |-> <<"c", "u", "p">>, factor |-> Rat(4227, 1000)],  \* l -> cup : 4.227
    [from |-> <<"o", "z">>, to |-> <<"g">>, factor |-> Rat(283495, 10000)],  \* oz -> g : 28.3495
    [from |-> <<"o", "z">>, to |-> <<"l", "b">>, factor |-> Rat(625, 10000)],  \* oz -> lb : 0.0625
    [from |-> <<"l", "b">>, to |-> <<"o", "z">>, factor |-> Rat(16, 1)],  \* lb -> oz : 16
    [from |-> <<"l", "b">>, to |-> <<"k", "g">>, factor |-> Rat(453592, 1000000)],  \* lb -> kg : 0.453592
    [from |-> <<"l", "b">>, to |-> <<"g">>, factor |-> Rat(453592, 1000)],  \* lb -> g : 453.592
    [from |-> <<"c", "u", "p">>, to |-> <<"m", "l">>, factor |-> Rat(236588, 1000)],  \* cup -> ml : 236.588
    [from |-> <<"c", "u", "p">>, to |-> <<"l">>, factor |-> Rat(236588, 1000000)],  \* cup -> l : 0.236588
    [from |-> <<"t", "b", "s", "p">>, to |-> <<"t", "s", "p">>, factor |-> Rat(3, 1)],  \* tbsp -> tsp : 3
    [from |-> <<"t", "b", "s", "p">>, to |-> <<"m", "l">>, factor |-> Rat(14787, 1000)],  \* tbsp -> ml : 14.787
    [from |-> <<"t", "s", "p">>, to |-> <<"t", "b", "s", "p">>, factor |-> Rat(333, 1000)],  \* tsp -> tbsp : 0.333
    [from |-> <<"t", "s", "p">>, to |-> <<"m", "l">>, factor |-> Rat(4929, 1000)]  \* tsp -> ml : 4.929
  >>

\* the canonical unit of the first UNIT_ALIASES entry, in table order, whose
\* alias list includes lower (the for-of over Object.entries returns at the
\* first hit); lower itself when there is none
RECURSIVE firstCanonical(_, _)
firstCanonical(lower, k) ==
  IF k > Len(UNIT_ALIASES) THEN lower
  ELSE IF arrayIncludes(UNIT_ALIASES[k].aliases, lower) THEN UNIT_ALIASES[k].canonical
  ELSE firstCanonical(lower, k + 1)

\* the function without the lower-casing of its first statement
normalizeUnit_caseSensitive(unit) == firstCanonical(trim(unit), 1)

normalizeUnit(unit) == firstCanonical(trim(toLowerCase(unit)), 1)

\* the key constructor, which every object literal inherits
constructorKey == <<"c", "o", "n", "s", "t", "r", "u", "c", "t", "o", "r">>

\* the table has an own entry [a][b]
ownStandardEntry(a, b) ==
  \E k \in 1..Len(STANDARD_CONVERSIONS) :
    /\ STANDARD_CONVERSIONS[k].from = a
    /\ STANDARD_CONVERSIONS[k].to = b

\* a is one of the nine own keys of the table
isStandardKey(a) ==
  \E k \in 1..Len(STANDARD_CONVERSIONS) : STANDARD_CONVERSIONS[k].from = a

\* STANDARD_CONVERSIONS[a]?.[b] is truthy: an own entry exists (every factor
\* of the table is non-zero), or a is a key of the table and b is
\* constructor, which the inner object literal inherits.  (A normalized unit
\* is in lower case, and the other members of Object.prototype have a
\* capital in their name, except __proto__.  With the first key constructor
\* the lookup reads the members of the function Object, none of which is a
\* unit text drawn below, except constructor itself, and equal units are
\* answered before any lookup.)
hasStandardEntry(a, b) ==
  \/ \E k \in 1..Len(STANDARD_CONVERSIONS) :
       /\ STANDARD_CONVERSIONS[k].from = a
       /\ STANDARD_CONVERSIONS[k].to = b
       /\ STANDARD_CONVERSIONS[k].factor # Zero
  \/ isStandardKey(a) /\ b = constructorKey

\* STANDARD_CONVERSIONS[a][b]
standardEntry(a, b) ==
  IF ownStandardEntry(a, b)
  THEN STANDARD_CONVERSIONS[CHOOSE k \in 1..Len(STANDARD_CONVERSIONS) :
                               /\ STANDARD_CONVERSIONS[k].from = a
                               /\ STANDARD_CONVERSIONS[k].to = b].factor
  ELSE ObjectFunction

\* the tests of the table alone, without the test for equal units
compatibleNormalized_noEqualTest(norm1, norm2) ==
  IF hasStandardEntry(norm1, norm2) THEN TRUE
  ELSE IF hasStandardEntry(norm2, norm1) THEN TRUE
  ELSE FALSE

\* the three tests of areUnitsCompatible on the normalized units
compatibleNormalized(norm1, norm2) ==
  IF norm1 = norm2 THEN TRUE
  ELSE IF hasStandardEntry(norm1, norm2) THEN TRUE
  ELSE IF hasStandardEntry(norm2, norm1) THEN TRUE
  ELSE FALSE

areUnitsCompatible(u1, u2) == compatibleNormalized(normalizeUnit(u1), normalizeUnit(u2))

\* the value null
null == [null |-> TRUE]

\* the four returns of getStandardConversionFactor on the normalized units
standardFactorNormalized(normFrom, normTo) ==
  IF normFrom = normTo THEN One
  ELSE IF hasStandardEntry(normFrom, normTo) THEN standardEntry(normFrom, normTo)
  ELSE IF hasStandardEntry(normTo, normFrom) THEN Div(One, standardEntry(normTo, normFrom))
  ELSE null

getStandardConversionFactor(fromUnit, toUnit) ==
  standardFactorNormalized(normalizeUnit(fromUnit), normalizeUnit(toUnit))

----------------------------------------------------------------------------
(* Quantity Parser *)

\* the value undefined
undefined == [undefined |-> TRUE]

\* The nine vulgar-fraction characters are single characters of a text; each
\* is written here as one token, "[1/4]" for U+00BC and so on.
fractionMap ==
  <<
    [glyph |-> "[1/4]", value |-> Rat(25, 100)],    \* 0.25
    [glyph |-> "[1/2]", value |-> Rat(5, 10)],      \* 0.5
    [glyph |-> "[3/4]", value |-> Rat(75, 100)],    \* 0.75
    [glyph |-> "[1/3]", value |-> Rat(333, 1000)],  \* 0.333
    [glyph |-> "[2/3]", value |-> Rat(667, 1000)],  \* 0.667
    [glyph |-> "[1/8]", value |-> Rat(125, 1000)],  \* 0.125
    [glyph |-> "[3/8]", value |-> Rat(375, 1000)],  \* 0.375
    [glyph |-> "[5/8]", value |-> Rat(625, 1000)],  \* 0.625
    [glyph |-> "[7/8]", value |-> Rat(875, 1000)]   \* 0.875
  >>

\* fractionMap[key] for a text key: the entry whose one-character key is the
\* whole text, the inherited function Object for the key constructor,
\* undefined otherwise.
fractionMapLookup(key) ==
  IF Len(key) = 1 /\ \E k \in 1..Len(fractionMap) : fractionMap[k].glyph = key[1]
  THEN fractionMap[CHOOSE k \in 1..Len(fractionMap) : fractionMap[k].glyph = key[1]].value
  ELSE IF key = constructorKey THEN ObjectFunction
  ELSE undefined

\* a value used as a condition: undefined, 0 and NaN are falsy
truthy(v) == v # undefined /\ v # Zero /\ v # NaN

\* if (fractionMap[trimmed]) return fractionMap[trimmed]: the value returned,
\* undefined when the statement does not return
glyphReturn(trimmed) ==
  IF truthy(fractionMapLookup(trimmed)) THEN fractionMapLookup(trimmed) ELSE undefined

\* the test and the return inside if (trimmed.includes('/'))
quotientReturn(numerator, denominator) ==
  IF ~isNaN(numerator) /\ ~isNaN(denominator) /\ denominator # Zero
  THEN Div(numerator, denominator)
  ELSE undefined

\* the first two elements of trimmed.split('/').map(n => parseFloat(n.trim()))
splitReturn(parts) ==
  quotientReturn(parseFloat(trim(parts[1])), parseFloat(trim(parts[2])))

\* if (trimmed.includes('/')) { ... }: the value returned, undefined when the
\* statement does not return
asciiReturn(trimmed) ==
  IF includes(trimmed, "/") THEN splitReturn(split(trimmed, "/")) ELSE undefined

\* the character class of the nine glyphs in the mixed-number pattern
isFractionGlyph(c) ==
  c \in {"[1/4]", "[1/2]", "[3/4]", "[1/3]", "[2/3]", "[1/8]", "[3/8]", "[5/8]", "[7/8]"}

\* s matches (\d+)\/(\d+) in full, p being the length of its leading digits
isAsciiFractionAt(s, p) ==
  /\ p >= 1
  /\ Len(s) >= p + 2
  /\ s[p + 1] = "/"
  /\ digitPrefixLen(SubSeq(s, p + 2, Len(s))) = Len(s) - (p + 1)

isAsciiFraction(s) == isAsciiFractionAt(s, digitPrefixLen(s))

\* s matches the second group of the pattern: one glyph, or (\d+)\/(\d+)
isFractionPart(s) == (Len(s) = 1 /\ isFractionGlyph(s[1])) \/ isAsciiFraction(s)

\* what follows a whole part of i digits and any whitespace
afterWhole(t, i) == trimStart(SubSeq(t, i + 1, Len(t)))

\* the whole-part lengths for which the pattern matches t
mixedWholeLengths(t) == {i \in 1..digitPrefixLen(t) : isFractionPart(afterWhole(t, i))}

\* the groups of a match with whole part whole and fraction part rest, p
\* being the length of the leading digits of rest.  A group that took no
\* part in the match is the empty text here: like undefined it is falsy,
\* and \d+ never matches the empty text.
mixedGroups(whole, rest, p) ==
  [g1 |-> whole,
   g2 |-> rest,
   g3 |-> IF isAsciiFractionAt(rest, p) THEN SubSeq(rest, 1, p) ELSE <<>>,
   g4 |-> IF isAsciiFractionAt(rest, p) THEN SubSeq(rest, p + 2, Len(rest)) ELSE <<>>]

\* the match whose whole part has i digits
mixedMatchAt(t, i) == mixedGroups(SubSeq(t, 1, i), afterWhole(t, i), digitPrefixLen(afterWhole(t, i)))

\* the greedy \d+ takes the longest whole part that lets the rest match
mixedMatchAmong(t, lengths) ==
  IF lengths = {} THEN null
  ELSE mixedMatchAt(t, CHOOSE j \in lengths : \A h \in lengths : h <= j)

\* trimmed.match(/^(\d+)\s*([nine glyphs]|(\d+)\/(\d+))$/)
mixedMatchOf(t) == mixedMatchAmong(t, mixedWholeLengths(t))

\* fractionMap[fractionPart] || (mixedMatch[3] ? parseFloat(mixedMatch[3]) / parseFloat(mixedMatch[4]) : 0)
mixedFractionValue(mixedMatch) ==
  IF truthy(fractionMapLookup(mixedMatch.g2)) THEN fractionMapLookup(mixedMatch.g2)
  ELSE IF mixedMatch.g3 # <<>>
       THEN Div(parseFloat(mixedMatch.g3), parseFloat(mixedMatch.g4))
       ELSE Zero

\* if (mixedMatch) { ... return whole + fractionValue }: the value returned,
\* undefined when the statement does not return
mixedReturn(mixedMatch) ==
  IF mixedMatch # null
  THEN Add(parseFloat(mixedMatch.g1), mixedFractionValue(mixedMatch))
  ELSE undefined

\* return isNaN(num) ? 0 : num
plainReturn(num) == IF isNaN(num) THEN Zero ELSE num

\* the first of the four return statements, in program order, that returns
firstReturn(r1, r2, r3, r4) ==
  IF r1 # undefined THEN r1
  ELSE IF r2 # undefined THEN r2
  ELSE IF r3 # undefined THEN r3
  ELSE r4

parseFractionTrimmed(trimmed) ==
  firstReturn(glyphReturn(trimmed),
              asciiReturn(trimmed),
              mixedReturn(mixedMatchOf(trimmed)),
              plainReturn(parseFloat(trimmed)))

\* the function without its first statement
parseFraction_untrimmed(text) == parseFractionTrimmed(text)

parseFraction(text) == parseFractionTrimmed(trim(text))

----------------------------------------------------------------------------
(* Cost Engine -- single line *)

\* a predicate that accepts a conversion authored in either direction
costConversionMatches_eitherDirection(c, ingredient, recipeUnit, inventoryUnit) ==
  /\ c.inventoryItemId = ingredient.inventoryItem.id
  /\ \/ normalizeUnit(c.fromUnit) = recipeUnit /\ normalizeUnit(c.toUnit) = inventoryUnit
     \/ normalizeUnit(c.fromUnit) = inventoryUnit /\ normalizeUnit(c.toUnit) = recipeUnit

\* the predicate handed to customConversions.find by
\* calculateIngredientCostWithConversion
costConversionMatches(c, ingredient, recipeUnit, inventoryUnit) ==
  /\ c.inventoryItemId = ingredient.inventoryItem.id
  /\ normalizeUnit(c.fromUnit) = recipeUnit
  /\ normalizeUnit(c.toUnit) = inventoryUnit

\* the last of the positions hits in convs, undefined when there is none
firstOf_lastMatch(convs, hits) ==
  IF hits = {} THEN undefined
  ELSE convs[CHOOSE k \in hits : \A h \in hits : h <= k]

\* the first of the positions hits in convs, undefined when there is none
firstOf(convs, hits) ==
  IF hits = {} THEN undefined
  ELSE convs[CHOOSE k \in hits : \A h \in hits : k <= h]

\* customConversions.find(...): the first entry that matches, or undefined
findCostConversion(convs, ingredient, recipeUnit, inventoryUnit) ==
  firstOf(convs, {k \in 1..Len(convs) :
                    costConversionMatches(convs[k], ingredient, recipeUnit, inventoryUnit)})

\* the guard without its test of the price
incompleteData_noPriceTest(recipeQuantity, inventoryQuantity, inventoryPrice) ==
  recipeQuantity = Zero \/ inventoryQuantity = Zero

\* the guard of the early return for incomplete data
incompleteData(recipeQuantity, inventoryQuantity, inventoryPrice) ==
  recipeQuantity = Zero \/ inventoryQuantity = Zero \/ isNaN(inventoryPrice)

\* the factor applied in the inventory-unit -> recipe-unit direction
lineTotalCost_reverseFactor(recipeQuantity, conversionFactor, inventoryPrice, inventoryQuantity) ==
  Mul(Div(inventoryPrice, inventoryQuantity), Div(recipeQuantity, conversionFactor))

\* convertedQuantity, costPerUnit and totalCost
lineTotalCost(recipeQuantity, conversionFactor, inventoryPrice, inventoryQuantity) ==
  Mul(Div(inventoryPrice, inventoryQuantity), Mul(recipeQuantity, conversionFactor))

\* the cost returned without the override for a mismatch
returnedCost_noOverride(hasUnitMismatch, total) == total

\* the cost field of the returned result
returnedCost(hasUnitMismatch, total) == IF hasUnitMismatch THEN Zero ELSE total

\* the branch that records the conversion but leaves the factor at 1
resolveCustom_factorUnset(customConversion) ==
  IF customConversion # undefined
  THEN [conversionFactor |-> One,
        hasUnitMismatch |-> FALSE,
        usedConversion |-> customConversion]
  ELSE [conversionFactor |-> One,
        hasUnitMismatch |-> TRUE,
        usedConversion |-> undefined]

\* conversionFactor, hasUnitMismatch and usedConversion after the else
\* branch taken when no standard conversion exists
resolveCustom(customConversion) ==
  IF customConversion # undefined
  THEN [conversionFactor |-> parseFloat(customConversion.conversionFactor),
        hasUnitMismatch |-> FALSE,
        usedConversion |-> customConversion]
  ELSE [conversionFactor |-> One,
        hasUnitMismatch |-> TRUE,
        usedConversion |-> undefined]

\* the branch with the custom conversions asked before the standard table
resolveStandard_customFirst(standardConversion, customConversion) ==
  IF customConversion # undefined THEN resolveCustom(customConversion)
  ELSE IF standardConversion # null
       THEN [conversionFactor |-> standardConversion,
             hasUnitMismatch |-> FALSE,
             usedConversion |-> undefined]
       ELSE resolveCustom(customConversion)

\* the same three locals after the branch on standardConversion; the custom
\* conversions are searched only when it is null
resolveStandard(standardConversion, customConversion) ==
  IF standardConversion # null
  THEN [conversionFactor |-> standardConversion,
        hasUnitMismatch |-> FALSE,
        usedConversion |-> undefined]
  ELSE resolveCustom(customConversion)

\* the three locals when the units are never compared and the standard table
\* is never asked: only a custom conversion can resolve a line
resolveUnits_customOnly(ingredient, convs, recipeUnit, inventoryUnit) ==
  resolveCustom(findCostConversion(convs, ingredient, recipeUnit, inventoryUnit))

\* the same three locals after the block if (recipeUnit !== inventoryUnit)
resolveUnits(ingredient, convs, recipeUnit, inventoryUnit) ==
  IF recipeUnit # inventoryUnit
  THEN resolveStandard(getStandardConversionFactor(recipeUnit, inventoryUnit),
                       findCostConversion(convs, ingredient, recipeUnit, inventoryUnit))
  ELSE [conversionFactor |-> One,
        hasUnitMismatch |-> FALSE,
        usedConversion |-> undefined]

\* the result returned at the end of the function
resolvedResult(resolved, recipeQuantity, inventoryQuantity, inventoryPrice) ==
  [cost |-> returnedCost(resolved.hasUnitMismatch,
                         lineTotalCost(recipeQuantity, resolved.conversionFactor,
                                       inventoryPrice, inventoryQuantity)),
   hasUnitMismatch |-> resolved.hasUnitMismatch,
   usedConversion |-> resolved.usedConversion]

\* the function after its three parses
costOfParsed(ingredient, convs, recipeQuantity, inventoryQuantity, inventoryPrice) ==
  IF incompleteData(recipeQuantity, inventoryQuantity, inventoryPrice)
  THEN [cost |-> Zero, hasUnitMismatch |-> FALSE, usedConversion |-> undefined]
  ELSE resolvedResult(resolveUnits(ingredient, convs,
                                   normalizeUnit(ingredient.unit),
                                   normalizeUnit(ingredient.inventoryItem.unit)),
                      recipeQuantity, inventoryQuantity, inventoryPrice)

calculateIngredientCostWithConversion(ingredient, convs) ==
  costOfParsed(ingredient, convs,
               parseFraction(ingredient.quantity),
               parseFraction(ingredient.inventoryItem.unitQuantity),
               parseFloat(ingredient.inventoryItem.unitPrice))

\* the legacy entry point: no custom conversions, only the cost
calculateIngredientCost(ingredient) ==
  calculateIngredientCostWithConversion(ingredient, <<>>).cost

----------------------------------------------------------------------------
(* Cost Engine -- aggregation and mismatch detection *)

\* a loop body that assigns where it should add
calculateRecipeCostBody_assigns(total, ingredient, convs) ==
  calculateIngredientCostWithConversion(ingredient, convs).cost

\* the body of the for-of loop of calculateRecipeCost: totalCost += result.cost
calculateRecipeCostBody(total, ingredient, convs) ==
  Add(total, calculateIngredientCostWithConversion(ingredient, convs).cost)

\* the predicate handed to customConversions.find by detectUnitMismatches
warningConversionMatches(c, ingredient, recipeUnit, inventoryUnit) ==
  /\ c.inventoryItemId = ingredient.inventoryItem.id
  /\ normalizeUnit(c.fromUnit) = recipeUnit
  /\ normalizeUnit(c.toUnit) = inventoryUnit

findWarningConversion(convs, ingredient, recipeUnit, inventoryUnit) ==
  firstOf(convs, {k \in 1..Len(convs) :
                    warningConversionMatches(convs[k], ingredient, recipeUnit, inventoryUnit)})

\* the two warnings.push calls: the warning for a line whose units no
\* standard conversion reconciles
warningFor(ingredient, customConversion) ==
  IF customConversion # undefined
  THEN [ingredientName |-> ingredient.inventoryItem.name,
        recipeUnit |-> ingredient.unit,
        inventoryUnit |-> ingredient.inventoryItem.unit,
        inventoryItemId |-> ingredient.inventoryItem.id,
        inventoryItemName |-> ingredient.inventoryItem.name,
        canConvert |-> TRUE,
        conversion |-> customConversion]
  ELSE [ingredientName |-> ingredient.inventoryItem.name,
        recipeUnit |-> ingredient.unit,
        inventoryUnit |-> ingredient.inventoryItem.unit,
        inventoryItemId |-> ingredient.inventoryItem.id,
        inventoryItemName |-> ingredient.inventoryItem.name,
        canConvert |-> FALSE,
        conversion |-> undefined]

\* an iteration without the continue for standard-convertible units
detectNormalized_noStandardContinue(warns, ingredient, convs, recipeUnit, inventoryUnit) ==
  IF recipeUnit = inventoryUnit THEN warns
  ELSE Append(warns,
              warningFor(ingredient,
                         findWarningConversion(convs, ingredient, recipeUnit, inventoryUnit)))

\* one iteration on the normalized units: the two continue statements, then
\* the push
detectNormalized(warns, ingredient, convs, recipeUnit, inventoryUnit) ==
  IF recipeUnit = inventoryUnit THEN warns
  ELSE IF getStandardConversionFactor(recipeUnit, inventoryUnit) # null THEN warns
  ELSE Append(warns,
              warningFor(ingredient,
                         findWarningConversion(convs, ingredient, recipeUnit, inventoryUnit)))

\* the body of the for-of loop of detectUnitMismatches: the warnings list
\* after visiting one line
detectUnitMismatchesBody(warns, ingredient, convs) ==
  detectNormalized(warns, ingredient, convs,
                   normalizeUnit(ingredient.unit),
                   normalizeUnit(ingredient.inventoryItem.unit))

\* the loop run from line k to the last line
RECURSIVE detectUnitMismatchesFrom(_, _, _, _)
detectUnitMismatchesFrom(warns, lines, convs, k) ==
  IF k > Len(lines) THEN warns
  ELSE detectUnitMismatchesFrom(detectUnitMismatchesBody(warns, lines[k], convs),
                                lines, convs, k + 1)

detectUnitMismatches(lines, convs) == detectUnitMismatchesFrom(<<>>, lines, convs, 1)

\* the predicate of mismatches.filter(m => !m.canConvert)
isUnresolved(m) == ~m.canConvert

\* the list returned unfiltered
unresolvedOnly_noFilter(mismatches) == mismatches

\* mismatches.filter(m => !m.canConvert)
unresolvedOnly(mismatches) == SelectSeq(mismatches, isUnresolved)

\* ingredients.map(ingredient => ({ingredient, result: ...}))
ingredientCostsOf(lines, convs) ==
  [k \in 1..Len(lines) |->
     [ingredient |-> lines[k],
      result |-> calculateIngredientCostWithConversion(lines[k], convs)]]

\* ingredientCosts.reduce((sum, ic) => sum + ic.result.cost, 0)
RECURSIVE reduceCosts(_, _, _)
reduceCosts(sum, ingredientCosts, k) ==
  IF k > Len(ingredientCosts) THEN sum
  ELSE reduceCosts(Add(sum, ingredientCosts[k].result.cost), ingredientCosts, k + 1)

\* the object returned by calculateRecipeCostDetailed
detailedResult(lines, ingredientCosts, mismatches) ==
  [totalCost |-> reduceCosts(Zero, ingredientCosts, 1),
   ingredientCosts |-> ingredientCosts,
   mismatches |-> unresolvedOnly(mismatches),
   linkedCount |-> Len(lines),
   totalIngredients |-> Len(lines)]

calculateRecipeCostDetailed(lines, convs) ==
  detailedResult(lines, ingredientCostsOf(lines, convs), detectUnitMismatches(lines, convs))

\* {...ingredient, cost: result.cost, hasUnitMismatch: result.hasUnitMismatch}
breakdownEntry(ingredient, result) ==
  [quantity |-> ingredient.quantity,
   unit |-> ingredient.unit,
   inventoryItem |-> ingredient.inventoryItem,
   cost |-> result.cost,
   hasUnitMismatch |-> result.hasUnitMismatch]

\* the breakdown computed without the custom conversions
calculateCostBreakdown_noConversions(lines, convs) ==
  [k \in 1..Len(lines) |->
     breakdownEntry(lines[k], calculateIngredientCostWithConversion(lines[k], <<>>))]

\* ingredients.map(ingredient => ...) of calculateCostBreakdown
calculateCostBreakdown(lines, convs) ==
  [k \in 1..Len(lines) |->
     breakdownEntry(lines[k], calculateIngredientCostWithConversion(lines[k], convs))]

----------------------------------------------------------------------------
(* Conversion suggestions *)

\* String.prototype.includes for a text: sub occurs in s as a substring
includesText(s, sub) ==
  \E i \in 0..(Len(s) - Len(sub)) : SubSeq(s, i + 1, i + Len(sub)) = sub

\* the tests of the item name with cheese tried before ham and meat
suggestForGrams_cheeseFirst(lowerName) ==
  IF includesText(lowerName, <<"c", "h", "e", "e", "s", "e">>) THEN Rat(50, 1)
  ELSE IF includesText(lowerName, <<"h", "a", "m">>) \/ includesText(lowerName, <<"m", "e", "a", "t">>) THEN Rat(100, 1)
  ELSE IF includesText(lowerName, <<"b", "u", "t", "t", "e", "r">>) THEN Rat(20, 1)
  ELSE IF includesText(lowerName, <<"e", "g", "g">>) THEN Rat(60, 1)
  ELSE IF includesText(lowerName, <<"o", "n", "i", "o", "n">>) THEN Rat(150, 1)
  ELSE IF includesText(lowerName, <<"g", "a", "r", "l", "i", "c">>) THEN Rat(5, 1)
  ELSE IF includesText(lowerName, <<"l", "e", "m", "o", "n">>) \/ includesText(lowerName, <<"l", "i", "m", "e">>) THEN Rat(50, 1)
  ELSE Rat(100, 1)

\* the chain of tests of the lower-cased item name, unit -> g
suggestForGrams(lowerName) ==
  IF includesText(lowerName, <<"h", "a", "m">>) \/ includesText(lowerName, <<"m", "e", "a", "t">>) THEN Rat(100, 1)
  ELSE IF includesText(lowerName, <<"c", "h", "e", "e", "s", "e">>) THEN Rat(50, 1)
  ELSE IF includesText(lowerName, <<"b", "u", "t", "t", "e", "r">>) THEN Rat(20, 1)
  ELSE IF includesText(lowerName, <<"e", "g", "g">>) THEN Rat(60, 1)
  ELSE IF includesText(lowerName, <<"o", "n", "i", "o", "n">>) THEN Rat(150, 1)
  ELSE IF includesText(lowerName, <<"g", "a", "r", "l", "i", "c">>) THEN Rat(5, 1)
  ELSE IF includesText(lowerName, <<"l", "e", "m", "o", "n">>) \/ includesText(lowerName, <<"l", "i", "m", "e">>) THEN Rat(50, 1)
  ELSE Rat(100, 1)

\* the function on the normalized units
suggestNormalized(normFrom, normTo, name) ==
  IF normFrom = <<"u", "n", "i", "t">> /\ normTo = <<"g">>
  THEN suggestForGrams(toLowerCase(name))
  ELSE IF normFrom = <<"u", "n", "i", "t">> /\ normTo = <<"m", "l">> THEN Rat(250, 1)
  ELSE null

suggestConversionFactor(fromUnit, toUnit, name) ==
  suggestNormalized(normalizeUnit(fromUnit), normalizeUnit(toUnit), name)

----------------------------------------------------------------------------
(* Inventory dialog *)

\* Math.round of a finite number: the nearest integer, halves upwards
round(x) == Rat((2 * x.n + x.d) \div (2 * x.d), 1)

\* the decimal digits of a natural number
RECURSIVE naturalToString(_)
naturalToString(k) ==
  IF k < 10 THEN <<Digits[k + 1]>>
  ELSE naturalToString(k \div 10) \o <<Digits[(k % 10) + 1]>>

\* String(x) for an integer x
numberToString(x) ==
  IF x.n < 0 THEN <<"-">> \o naturalToString(-x.n) ELSE naturalToString(x.n)

\* x || 1
orOne(x) == IF truthy(x) THEN x ELSE One

\* the preview of a complete form, on the lower-cased and trimmed unit
previewOf(qty, price, displayUnit) ==
  IF displayUnit \in {<<"k", "g">>, <<"k", "i", "l", "o">>, <<"k", "i", "l", "o", "s">>}
  THEN [costPerUnit |-> Div(price, Mul(qty, Rat(1000, 1))), displayUnit |-> <<"g">>]
  ELSE IF displayUnit \in {<<"l", "b">>, <<"l", "b", "s">>, <<"p", "o", "u", "n", "d">>, <<"p", "o", "u", "n", "d", "s">>}
  THEN [costPerUnit |-> Div(price, Mul(qty, Rat(454, 1))), displayUnit |-> <<"g">>]
  ELSE IF displayUnit \in {<<"o", "z">>, <<"o", "u", "n", "c", "e">>, <<"o", "u", "n", "c", "e", "s">>}
  THEN [costPerUnit |-> Div(price, Mul(qty, Rat(28, 1))), displayUnit |-> <<"g">>]
  ELSE IF displayUnit \in {<<"l">>, <<"l", "i", "t", "e", "r">>, <<"l", "i", "t", "r", "e">>, <<"l", "i", "t", "e", "r", "s">>, <<"l", "i", "t", "r", "e", "s">>}
  THEN [costPerUnit |-> Div(price, Mul(qty, Rat(1000, 1))), displayUnit |-> <<"m", "l">>]
  ELSE IF displayUnit \in {<<"g", "r", "a", "m">>, <<"g", "r", "a", "m", "s">>}
  THEN [costPerUnit |-> Div(price, qty), displayUnit |-> <<"g">>]
  ELSE [costPerUnit |-> Div(price, qty), displayUnit |-> displayUnit]

\* getCostPreview on the two parsed numbers
previewOfParsed(qty, price, unit) ==
  IF ~truthy(qty) \/ ~truthy(price) \/ unit = <<>> \/ isNaN(qty) \/ isNaN(price)
  THEN null
  ELSE previewOf(qty, price, trim(toLowerCase(unit)))

getCostPreview(unitQuantity, unit, unitPrice) ==
  previewOfParsed(parseFloat(unitQuantity), parseFloat(unitPrice), unit)

\* normalizeToGrams on the parsed quantity and the lower-cased, trimmed unit
normalizeParsed(item, qty, unitLower) ==
  IF unitLower \in {<<"k", "g">>, <<"k", "i", "l", "o">>, <<"k", "i", "l", "o", "s">>}
  THEN [item EXCEPT !.unitQuantity = numberToString(round(Mul(qty, Rat(1000, 1)))),
                    !.unit = <<"g">>]
  ELSE IF unitLower \in {<<"l", "b">>, <<"l", "b", "s">>, <<"p", "o", "u", "n", "d">>, <<"p", "o", "u", "n", "d", "s">>}
  THEN [item EXCEPT !.unitQuantity = numberToString(round(Mul(qty, Rat(454, 1)))),
                    !.unit = <<"g">>]
  ELSE IF unitLower \in {<<"o", "z">>, <<"o", "u", "n", "c", "e">>, <<"o", "u", "n", "c", "e", "s">>}
  THEN [item EXCEPT !.unitQuantity = numberToString(round(Mul(qty, Rat(28, 1)))),
                    !.unit = <<"g">>]
  ELSE IF unitLower \in {<<"l">>, <<"l", "i", "t", "e", "r">>, <<"l", "i", "t", "r", "e">>, <<"l", "i", "t", "e", "r", "s">>, <<"l", "i", "t", "r", "e", "s">>}
  THEN [item EXCEPT !.unitQuantity = numberToString(round(Mul(qty, Rat(1000, 1)))),
                    !.unit = <<"m", "l">>]
  ELSE IF unitLower \in {<<"g", "r", "a", "m">>, <<"g", "r", "a", "m", "s">>}
  THEN [item EXCEPT !.unit = <<"g">>]
  ELSE item

normalizeToGrams(item) ==
  normalizeParsed(item, orOne(parseFloat(item.unitQuantity)), trim(toLowerCase(item.unit)))

\* the container units and the portion unit suggested for each
containerUnits ==
  <<[unit |-> <<"l", "o", "a", "f">>, portion |-> <<"s", "l", "i", "c", "e">>],
    [unit |-> <<"l", "o", "a", "v", "e", "s">>, portion |-> <<"s", "l", "i", "c", "e">>],
    [unit |-> <<"s", "l", "a", "b">>, portion |-> <<"s", "l", "i", "c", "e">>],
    [unit |-> <<"s", "l", "a", "b", "s">>, portion |-> <<"s", "l", "i", "c", "e">>],
    [unit |-> <<"b", "o", "x">>, portion |-> <<"p", "i", "e", "c", "e">>],
    [unit |-> <<"b", "o", "x", "e", "s">>, portion |-> <<"p", "i", "e", "c", "e">>],
    [unit |-> <<"p", "a", "c", "k">>, portion |-> <<"p", "i", "e", "c", "e">>],
    [unit |-> <<"p", "a", "c", "k", "s">>, portion |-> <<"p", "i", "e", "c", "e">>],
    [unit |-> <<"p", "a", "c", "k", "e", "t">>, portion |-> <<"p", "i", "e", "c", "e">>],
    [unit |-> <<"p", "a", "c", "k", "e", "t", "s">>, portion |-> <<"p", "i", "e", "c", "e">>],
    [unit |-> <<"b", "u", "n", "c", "h">>, portion |-> <<"s", "t", "e", "m">>],
    [unit |-> <<"b", "u", "n", "c", "h", "e", "s">>, portion |-> <<"s", "t", "e", "m">>],
    [unit |-> <<"t", "r", "a", "y">>, portion |-> <<"p", "i", "e", "c", "e">>],
    [unit |-> <<"t", "r", "a", "y", "s">>, portion |-> <<"p", "i", "e", "c", "e">>],
    [unit |-> <<"r", "o", "l", "l">>, portion |-> <<"s", "l", "i", "c", "e">>],
    [unit |-> <<"r", "o", "l", "l", "s">>, portion |-> <<"s", "l", "i", "c", "e">>],
    [unit |-> <<"w", "h", "e", "e", "l">>, portion |-> <<"w", "e", "d", "g", "e">>],
    [unit |-> <<"w", "h", "e", "e", "l", "s">>, portion |-> <<"w", "e", "d", "g", "e">>],
    [unit |-> <<"b", "l", "o", "c", "k">>, portion |-> <<"s", "l", "i", "c", "e">>],
    [unit |-> <<"b", "l", "o", "c", "k", "s">>, portion |-> <<"s", "l", "i", "c", "e">>],
    [unit |-> <<"c", "a", "s", "e">>, portion |-> <<"b", "o", "t", "t", "l", "e">>],
    [unit |-> <<"c", "a", "s", "e", "s">>, portion |-> <<"b", "o", "t", "t", "l", "e">>],
    [unit |-> <<"c", "t", "n">>, portion |-> <<"p", "i", "e", "c", "e">>],
    [unit |-> <<"c", "a", "r", "t", "o", "n">>, portion |-> <<"p", "i", "e", "c", "e">>],
    [unit |-> <<"c", "a", "r", "t", "o", "n", "s">>, portion |-> <<"p", "i", "e", "c", "e">>]>>

\* key in containerUnits: own keys, and the member every object inherits
inContainerUnits(key) ==
  (\E k \in 1..Len(containerUnits) : containerUnits[k].unit = key) \/ key = constructorKey

\* containerUnits[key] || 'piece'
containerUnitsLookup(key) ==
  IF \E k \in 1..Len(containerUnits) : containerUnits[k].unit = key
  THEN containerUnits[CHOOSE k \in 1..Len(containerUnits) : containerUnits[k].unit = key].portion
  ELSE IF key = constructorKey THEN ObjectFunction
  ELSE <<"p", "i", "e", "c", "e">>

isContainerUnit(unit) == inContainerUnits(trim(toLowerCase(unit)))

getSuggestedPortionUnit(unit) == containerUnitsLookup(trim(toLowerCase(unit)))

----------------------------------------------------------------------------
(* Inputs *)

\* longest run of whitespace put around a unit text
MaxPad == 2
\* longest list of custom conversions
MaxConversions == 2
\* longest list of recipe lines
MaxLines == 2

SeqsUpTo(S, n) == UNION {[1..k -> S] : k \in 0..n}

\* the lists of at most n rows of a table, no row twice
RowsUpTo(S, n) ==
  {s \in SeqsUpTo(S, n) : \A j, k \in 1..Len(s) : s[j] = s[k] => j = k}

spaces(k) == [j \in 1..k |-> " "]

upperChar(c) ==
  IF \E k \in 1..Len(LowerCase) : LowerCase[k] = c
  THEN UpperCase[CHOOSE k \in 1..Len(LowerCase) : LowerCase[k] = c]
  ELSE c

allUpper(s) == [k \in 1..Len(s) |-> upperChar(s[k])]

capitalised(s) == [k \in 1..Len(s) |-> IF k = 1 THEN upperChar(s[k]) ELSE s[k]]

AllAliases ==
  UNION {{UNIT_ALIASES[k].aliases[j] : j \in 1..Len(UNIT_ALIASES[k].aliases)} :
           k \in 1..Len(UNIT_ALIASES)}

CanonicalUnits == {UNIT_ALIASES[k].canonical : k \in 1..Len(UNIT_ALIASES)}

\* units that are in no alias list
UnknownUnits ==
  {<<"l", "o", "a", "f">>, <<"c", "a", "r", "t", "o", "n">>, <<"k", " ", "g">>, constructorKey}

\* every alias and some unknown units, in three spellings and with up to
\* MaxPad blanks on either side
UnitTexts ==
  {spaces(a) \o v \o spaces(b) :
     v \in UNION {{s, allUpper(s), capitalised(s)} : s \in AllAliases \cup UnknownUnits},
     a \in 0..MaxPad, b \in 0..MaxPad}

\* the units of the standard table, unit, and two texts that are not canonical
SecondUnitTexts ==
  {STANDARD_CONVERSIONS[k].from : k \in 1..Len(STANDARD_CONVERSIONS)}
    \cup {<<"u", "n", "i", "t">>, <<"L", "b", "s", " ">>, <<"l", "o", "a", "f">>, constructorKey}

QuantityTexts ==
  {<<"2", "0", "0">>, <<"0">>, <<"a", "b", "c">>, <<"[1/2]">>, <<"-", "2", "0", "0">>}

LineUnitTexts ==
  {<<"g">>, <<"G", "r", "a", "m", "s", " ">>, <<"k", "g">>, <<"u", "n", "i", "t">>,
   <<" ", "L", "o", "a", "f">>}

PurchaseQuantityTexts == {<<"1", "0", "0", "0">>, <<"1">>, <<"0">>}

PurchaseUnitTexts ==
  {<<"g">>, <<"k", "g">>, <<"u", "n", "i", "t">>, <<"o", "z">>, <<"l", "o", "a", "f">>}

PriceTexts == {<<"1", "2", ".", "0", "0">>, <<"a", "b", "c">>}

Ham == <<"H", "a", "m">>

\* every line over the texts above, all linked to the inventory item item-1
Lines ==
  {[quantity |-> q, unit |-> u,
    inventoryItem |-> [id |-> "item-1", name |-> Ham,
                       unitQuantity |-> pq, unit |-> pu, unitPrice |-> pp]] :
     q \in QuantityTexts, u \in LineUnitTexts,
     pq \in PurchaseQuantityTexts, pu \in PurchaseUnitTexts, pp \in PriceTexts}

\* custom conversions for two items, in both directions between g and unit,
\* and one for item-1 spelt with aliases whose factor is no number
Conversions ==
  {[id |-> "conv", inventoryItemId |-> item, fromUnit |-> p[1], toUnit |-> p[2],
    conversionFactor |-> <<"0", ".", "0", "1">>] :
     item \in {"item-1", "item-2"},
     p \in {<< <<"g">>, <<"u", "n", "i", "t">> >>, << <<"u", "n", "i", "t">>, <<"g">> >>}}
  \cup
  {[id |-> "conv", inventoryItemId |-> "item-1", fromUnit |-> <<"G", "r", "a", "m", "s">>,
    toUnit |-> <<"U", "n", "i", "t", "s">>, conversionFactor |-> <<"a", "b", "c">>]}

----------------------------------------------------------------------------
(* The single-line engine *)

Init ==
  /\ ingredients \in {<<l>> : l \in Lines}
  /\ customConversions \in SeqsUpTo(Conversions, MaxConversions)
  /\ unit1 = <<>>
  /\ unit2 = <<>>
  /\ str = <<>>
  /\ itemName = <<>>
  /\ formData = null
  /\ portionCount = <<>>
  /\ portionUnit = <<>>
  /\ pc = "idle"
  /\ idx = 0
  /\ totalCost = Zero
  /\ warnings = <<>>
  /\ ret = [op |-> "none"]

CalculateIngredientCostWithConversion ==
  /\ pc = "idle"
  /\ pc' = "returned"
  /\ ret' = [op |-> "calculateIngredientCostWithConversion",
             value |-> calculateIngredientCostWithConversion(ingredients[1], customConversions)]
  /\ UNCHANGED <<ingredients, customConversions, unit1, unit2, str, itemName, formData, portionCount, portionUnit, idx, totalCost, warnings>>

\* the legacy entry point: no custom conversions, only the cost is returned
CalculateIngredientCost ==
  /\ pc = "idle"
  /\ pc' = "returned"
  /\ ret' = [op |-> "calculateIngredientCost",
             value |-> calculateIngredientCost(ingredients[1])]
  /\ UNCHANGED <<ingredients, customConversions, unit1, unit2, str, itemName, formData, portionCount, portionUnit, idx, totalCost, warnings>>

Next == CalculateIngredientCostWithConversion \/ CalculateIngredientCost

Spec == Init /\ [][Next]_vars

----------------------------------------------------------------------------
(* Properties of the single-line engine, checked under Spec *)

\* calculateIngredientCostWithConversion has returned
LineCostReturned == pc = "returned" /\ ret.op = "calculateIngredientCostWithConversion"

\* the line that was costed and its three parsed numbers
theLine == ingredients[1]
recipeQuantityOf(l) == parseFraction(l.quantity)
purchaseQuantityOf(l) == parseFraction(l.inventoryItem.unitQuantity)
priceOf(l) == parseFloat(l.inventoryItem.unitPrice)

\* non-zero recipe quantity, non-zero purchase quantity and a numeric price
ValidData(l) ==
  recipeQuantityOf(l) # Zero /\ purchaseQuantityOf(l) # Zero /\ ~isNaN(priceOf(l))

\* the normalized units of the line differ and the standard table does not
\* convert the recipe unit into the inventory unit
NoStandardConversion(l) ==
  /\ normalizeUnit(l.unit) # normalizeUnit(l.inventoryItem.unit)
  /\ getStandardConversionFactor(l.unit, l.inventoryItem.unit) = null

\* c is for the item of line l and goes from its recipe unit to its inventory unit
AuthoredFor(c, l) ==
  /\ c.inventoryItemId = l.inventoryItem.id
  /\ normalizeUnit(c.fromUnit) = normalizeUnit(l.unit)
  /\ normalizeUnit(c.toUnit) = normalizeUnit(l.inventoryItem.unit)

\* (price / purchase quantity) x (recipe quantity x f)
CostFormula(l, f) == Mul(Div(priceOf(l), purchaseQuantityOf(l)), Mul(recipeQuantityOf(l), f))

\* C1: whenever calculateIngredientCostWithConversion returns hasUnitMismatch
\* = true, the returned cost is exactly 0, whatever the quantities and price.
C1_MismatchCostsZero ==
  (LineCostReturned /\ ret.value.hasUnitMismatch) => ret.value.cost = Zero

\* a mismatched line whose arithmetic result, had it been returned, is not 0
C1_Witness ==
  /\ LineCostReturned
  /\ ret.value.hasUnitMismatch
  /\ CostFormula(theLine, One) # Zero
  /\ ~isNaN(CostFormula(theLine, One))

\* the factor that converts the recipe unit of l into its inventory unit: 1
\* for equal normalized units, else the standard factor, else the factor of
\* the custom conversion used
FactorOf(l, used) ==
  IF normalizeUnit(l.unit) = normalizeUnit(l.inventoryItem.unit) THEN One
  ELSE IF getStandardConversionFactor(l.unit, l.inventoryItem.unit) # null
       THEN getStandardConversionFactor(l.unit, l.inventoryItem.unit)
       ELSE parseFloat(used.conversionFactor)

\* the line "200 g" against an item bought as pq pu for 12.00
IsExample(l, pq, pu) ==
  /\ l.quantity = <<"2", "0", "0">>
  /\ l.unit = <<"g">>
  /\ l.inventoryItem.unitQuantity = pq
  /\ l.inventoryItem.unit = pu
  /\ l.inventoryItem.unitPrice = <<"1", "2", ".", "0", "0">>

\* C3: with non-zero quantities, a numeric price and no unit mismatch, the
\* cost is (price / purchase quantity) x (recipe quantity x f), f being the
\* recipe-unit -> inventory-unit factor; 200 g against {1000 g, 12.00} and
\* against {1 kg, 12.00} both cost 2.40 with no mismatch.
C3_CostFormula ==
  LineCostReturned =>
    /\ (ValidData(theLine) /\ ~ret.value.hasUnitMismatch) =>
          ret.value.cost = CostFormula(theLine, FactorOf(theLine, ret.value.usedConversion))
    /\ (IsExample(theLine, <<"1", "0", "0", "0">>, <<"g">>)
          \/ IsExample(theLine, <<"1">>, <<"k", "g">>)) =>
          (ret.value.cost = Rat(240, 100) /\ ~ret.value.hasUnitMismatch)

\* the cross-unit example has been costed through the standard factor g -> kg
C3_Witness ==
  /\ LineCostReturned
  /\ IsExample(theLine, <<"1">>, <<"k", "g">>)
  /\ FactorOf(theLine, ret.value.usedConversion) = Rat(1, 1000)
  /\ ret.value.cost = Rat(12, 5)

\* a conversion is used only if it is for the line's item and goes from the
\* recipe unit to the inventory unit
C4_UsedOnlyIfAuthoredFor ==
  ret.value.usedConversion # undefined =>
    /\ \E k \in 1..Len(customConversions) : customConversions[k] = ret.value.usedConversion
    /\ AuthoredFor(ret.value.usedConversion, theLine)

\* no conversion of the list is for this line: each is for another item or
\* for other units or in the reverse direction
C4_NoneAuthoredFor ==
  \A k \in 1..Len(customConversions) : ~AuthoredFor(customConversions[k], theLine)

\* c is for the item of line l but goes from its inventory unit to its recipe unit
ReverseOf(c, l) ==
  /\ c.inventoryItemId = l.inventoryItem.id
  /\ normalizeUnit(c.fromUnit) = normalizeUnit(l.inventoryItem.unit)
  /\ normalizeUnit(c.toUnit) = normalizeUnit(l.unit)

\* the list holds conversions, each for another item or in the reverse
\* direction, and none authored for this line
C4_OnlyForeignOrReverse ==
  /\ Len(customConversions) >= 1
  /\ C4_NoneAuthoredFor
  /\ \A k \in 1..Len(customConversions) :
       \/ customConversions[k].inventoryItemId # theLine.inventoryItem.id
       \/ ReverseOf(customConversions[k], theLine)

C6_IncompleteDataCostsNothing ==
  (LineCostReturned /\ ~ValidData(theLine)) =>
    /\ ret.value.cost = Zero
    /\ ~ret.value.hasUnitMismatch
    /\ ret.value.usedConversion = undefined

\* a line with an unparseable price whose units nothing reconciles
C6_Witness ==
  /\ LineCostReturned
  /\ recipeQuantityOf(theLine) # Zero
  /\ purchaseQuantityOf(theLine) # Zero
  /\ isNaN(priceOf(theLine))
  /\ NoStandardConversion(theLine)
  /\ C4_NoneAuthoredFor
  /\ ret.value = [cost |-> Zero, hasUnitMismatch |-> FALSE, usedConversion |-> undefined]

\* the recipe unit and the inventory unit of l normalize to one token
SameNormalizedUnit(l) == normalizeUnit(l.unit) = normalizeUnit(l.inventoryItem.unit)

\* C12: a line whose recipe unit and inventory unit normalize to the same
\* token is returned with hasUnitMismatch = false and no usedConversion,
\* whatever the quantities, the price and the custom conversions.
C12_EqualUnitsNeverMismatch ==
  (LineCostReturned /\ SameNormalizedUnit(theLine)) =>
    /\ ret.value.hasUnitMismatch = FALSE
    /\ ret.value.usedConversion = undefined

\* two spellings of a unit in no alias list have been costed with valid data
\* while custom conversions were at hand
C12_Witness ==
  /\ LineCostReturned
  /\ ValidData(theLine)
  /\ Len(customConversions) > 0
  /\ theLine.unit # theLine.inventoryItem.unit
  /\ SameNormalizedUnit(theLine)
  /\ normalizeUnit(theLine.unit) \notin CanonicalUnits
  /\ ~ret.value.hasUnitMismatch
  /\ ret.value.cost = CostFormula(theLine, One)

\* x is a number other than NaN, Infinity and -Infinity
IsFiniteNumber(x) == x # ObjectFunction /\ x.d # 0

\* C20: for every text quantity, unit, purchase quantity, purchase unit and
\* price and every list of custom conversions, whatever the text of their
\* conversionFactor, the cost returned is a usable number: never NaN and
\* never infinite.
C20_CostIsAlwaysFinite ==
  LineCostReturned => IsFiniteNumber(ret.value.cost)

\* C21: for a line whose price and purchase quantity are not negative, the
\* cost returned is a non-negative number, exactly 0 when the line is
\* unresolved, whatever the text of the recipe quantity and whatever the
\* custom conversions.
C21_CostIsNeverNegative ==
  (/\ LineCostReturned
   /\ NonNegative(priceOf(theLine))
   /\ NonNegative(purchaseQuantityOf(theLine))) =>
    /\ ~isNaN(ret.value.cost)
    /\ NonNegative(ret.value.cost)
    /\ ret.value.hasUnitMismatch => ret.value.cost = Zero

----------------------------------------------------------------------------
(* The aggregation functions over a list of lines *)

RecipeQuantityTexts == {<<"2", "0", "0">>, <<"0">>}

\* what the lines of a recipe are linked to: item-1 bought by the gram, by
\* the kilogram and by the unit, item-2 bought by the unit
RecipeItems ==
  {[id |-> "item-1", name |-> Ham, unitQuantity |-> <<"1", "0", "0", "0">>,
    unit |-> <<"g">>, unitPrice |-> <<"1", "2", ".", "0", "0">>],
   [id |-> "item-1", name |-> Ham, unitQuantity |-> <<"1">>,
    unit |-> <<"k", "g">>, unitPrice |-> <<"9", ".", "5", "0">>],
   [id |-> "item-1", name |-> Ham, unitQuantity |-> <<"1", "0">>,
    unit |-> <<"u", "n", "i", "t">>, unitPrice |-> <<"1", "2", ".", "0", "0">>],
   [id |-> "item-2", name |-> <<"E", "g", "g">>, unitQuantity |-> <<"1", "2">>,
    unit |-> <<"U", "n", "i", "t", "s">>, unitPrice |-> <<"3", ".", "6", "0">>]}

RecipeLines ==
  {[quantity |-> q, unit |-> <<"g">>, inventoryItem |-> item] :
     q \in RecipeQuantityTexts, item \in RecipeItems}

\* custom conversions for item-1 only: from g to unit, a second one from g to
\* unit spelt with aliases and with another factor, one between g and kg,
\* which the standard table converts, and one between two spellings of g
RecipeConversions ==
  {[id |-> "conv-a", inventoryItemId |-> "item-1", fromUnit |-> <<"g">>,
    toUnit |-> <<"u", "n", "i", "t">>, conversionFactor |-> <<"0", ".", "0", "1">>],
   [id |-> "conv-c", inventoryItemId |-> "item-1", fromUnit |-> <<"g">>,
    toUnit |-> <<"k", "g">>, conversionFactor |-> <<"0", ".", "5">>],
   [id |-> "conv-d", inventoryItemId |-> "item-1", fromUnit |-> <<"G", "r", "a", "m", "s">>,
    toUnit |-> <<"U", "n", "i", "t", "s">>, conversionFactor |-> <<"0", ".", "0", "2">>],
   [id |-> "conv-e", inventoryItemId |-> "item-1", fromUnit |-> <<"g">>,
    toUnit |-> <<"g", "r", "a", "m">>, conversionFactor |-> <<"3">>]}

InitRecipe ==
  /\ ingredients \in SeqsUpTo(RecipeLines, MaxLines)
  /\ customConversions \in RowsUpTo(RecipeConversions, MaxConversions)
  /\ unit1 = <<>>
  /\ unit2 = <<>>
  /\ str = <<>>
  /\ itemName = <<>>
  /\ formData = null
  /\ portionCount = <<>>
  /\ portionUnit = <<>>
  /\ pc = "idle"
  /\ idx = 0
  /\ totalCost = Zero
  /\ warnings = <<>>
  /\ ret = [op |-> "none"]

\* calculateRecipeCost: let totalCost = 0, entering the loop
CalculateRecipeCostBegin ==
  /\ pc = "idle"
  /\ pc' = "calculateRecipeCost"
  /\ idx' = 1
  /\ totalCost' = Zero
  /\ UNCHANGED <<ingredients, customConversions, unit1, unit2, str, itemName, formData, portionCount, portionUnit, warnings, ret>>

\* one iteration of the for-of loop
CalculateRecipeCostLoop ==
  /\ pc = "calculateRecipeCost"
  /\ idx <= Len(ingredients)
  /\ totalCost' = calculateRecipeCostBody(totalCost, ingredients[idx], customConversions)
  /\ idx' = idx + 1
  /\ UNCHANGED <<ingredients, customConversions, unit1, unit2, str, itemName, formData, portionCount, portionUnit, pc, warnings, ret>>

\* return totalCost
CalculateRecipeCostReturn ==
  /\ pc = "calculateRecipeCost"
  /\ idx > Len(ingredients)
  /\ pc' = "returned"
  /\ ret' = [op |-> "calculateRecipeCost", value |-> totalCost]
  /\ UNCHANGED <<ingredients, customConversions, unit1, unit2, str, itemName, formData, portionCount, portionUnit, idx, totalCost, warnings>>

\* detectUnitMismatches: const warnings = [], entering the loop
DetectUnitMismatchesBegin ==
  /\ pc = "idle"
  /\ pc' = "detectUnitMismatches"
  /\ idx' = 1
  /\ warnings' = <<>>
  /\ UNCHANGED <<ingredients, customConversions, unit1, unit2, str, itemName, formData, portionCount, portionUnit, totalCost, ret>>

\* one iteration of the for-of loop
DetectUnitMismatchesLoop ==
  /\ pc = "detectUnitMismatches"
  /\ idx <= Len(ingredients)
  /\ warnings' = detectUnitMismatchesBody(warnings, ingredients[idx], customConversions)
  /\ idx' = idx + 1
  /\ UNCHANGED <<ingredients, customConversions, unit1, unit2, str, itemName, formData, portionCount, portionUnit, pc, totalCost, ret>>

\* return warnings
DetectUnitMismatchesReturn ==
  /\ pc = "detectUnitMismatches"
  /\ idx > Len(ingredients)
  /\ pc' = "returned"
  /\ ret' = [op |-> "detectUnitMismatches", value |-> warnings]
  /\ UNCHANGED <<ingredients, customConversions, unit1, unit2, str, itemName, formData, portionCount, portionUnit, idx, totalCost, warnings>>

CalculateRecipeCostDetailed ==
  /\ pc = "idle"
  /\ pc' = "returned"
  /\ ret' = [op |-> "calculateRecipeCostDetailed",
             value |-> calculateRecipeCostDetailed(ingredients, customConversions)]
  /\ UNCHANGED <<ingredients, customConversions, unit1, unit2, str, itemName, formData, portionCount, portionUnit, idx, totalCost, warnings>>

CalculateCostBreakdown ==
  /\ pc = "idle"
  /\ pc' = "returned"
  /\ ret' = [op |-> "calculateCostBreakdown",
             value |-> calculateCostBreakdown(ingredients, customConversions)]
  /\ UNCHANGED <<ingredients, customConversions, unit1, unit2, str, itemName, formData, portionCount, portionUnit, idx, totalCost, warnings>>

NextRecipe ==
  \/ CalculateRecipeCostBegin
  \/ CalculateRecipeCostLoop
  \/ CalculateRecipeCostReturn
  \/ DetectUnitMismatchesBegin
  \/ DetectUnitMismatchesLoop
  \/ DetectUnitMismatchesReturn
  \/ CalculateRecipeCostDetailed
  \/ CalculateCostBreakdown

SpecRecipe == InitRecipe /\ [][NextRecipe]_vars

----------------------------------------------------------------------------
(* Properties of the aggregation functions, checked under SpecRecipe *)

\* the cost calculateIngredientCostWithConversion gives line k
lineCost(k) == calculateIngredientCostWithConversion(ingredients[k], customConversions).cost

\* the sum of the costs of the first k lines, taken in order from 0
RECURSIVE sumOfLineCosts(_)
sumOfLineCosts(k) == IF k = 0 THEN Zero ELSE Add(sumOfLineCosts(k - 1), lineCost(k))

\* C2: calculateRecipeCost(lines, conversions) equals the sum, over the lines
\* in order, of calculateIngredientCostWithConversion(line, conversions).cost,
\* and is 0 for an empty list; while the loop runs, totalCost is the sum over
\* the lines already visited.
C2_TotalIsSumOfLineCosts ==
  /\ pc = "calculateRecipeCost" => totalCost = sumOfLineCosts(idx - 1)
  /\ (pc = "returned" /\ ret.op = "calculateRecipeCost") =>
       /\ ret.value = sumOfLineCosts(Len(ingredients))
       /\ ingredients = <<>> => ret.value = Zero

\* two lines with different non-zero costs have been summed
C2_Witness ==
  /\ pc = "returned" /\ ret.op = "calculateRecipeCost"
  /\ Len(ingredients) = 2
  /\ lineCost(1) # Zero
  /\ lineCost(2) # Zero
  /\ lineCost(1) # lineCost(2)
  /\ ret.value = Add(lineCost(1), lineCost(2))

\* the normalized units of line l differ and have no standard conversion
Unreconciled(l) ==
  /\ normalizeUnit(l.unit) # normalizeUnit(l.inventoryItem.unit)
  /\ getStandardConversionFactor(l.unit, l.inventoryItem.unit) = null

\* the positions of the conversions authored for line l
conversionsFor(l) ==
  {k \in 1..Len(customConversions) :
     /\ customConversions[k].inventoryItemId = l.inventoryItem.id
     /\ normalizeUnit(customConversions[k].fromUnit) = normalizeUnit(l.unit)
     /\ normalizeUnit(customConversions[k].toUnit) = normalizeUnit(l.inventoryItem.unit)}

\* warning w is the one warning line l calls for
WarningOf(w, l) ==
  /\ w.ingredientName = l.inventoryItem.name
  /\ w.inventoryItemName = l.inventoryItem.name
  /\ w.inventoryItemId = l.inventoryItem.id
  /\ w.recipeUnit = l.unit
  /\ w.inventoryUnit = l.inventoryItem.unit
  /\ w.canConvert = (conversionsFor(l) # {})
  /\ IF conversionsFor(l) = {}
     THEN w.conversion = undefined
     ELSE \E k \in conversionsFor(l) : w.conversion = customConversions[k]

\* ws are the warnings of the unreconciled lines among the first n, in line order
WarningsOfFirst(ws, n) ==
  /\ Len(ws) = Len(SelectSeq(SubSeq(ingredients, 1, n), Unreconciled))
  /\ \A j \in 1..Len(ws) :
       WarningOf(ws[j], SelectSeq(SubSeq(ingredients, 1, n), Unreconciled)[j])

\* C7: detectUnitMismatches emits, in line order, exactly one warning for each
\* line whose normalized units differ and have no standard conversion, with
\* canConvert = true and the conversion attached when a matching custom
\* conversion exists and canConvert = false otherwise, and nothing for the
\* other lines; quantity, purchase quantity and price play no part.
C7_WarningsAreTheUnreconciledLines ==
  /\ pc = "detectUnitMismatches" => WarningsOfFirst(warnings, idx - 1)
  /\ (pc = "returned" /\ ret.op = "detectUnitMismatches") =>
       WarningsOfFirst(ret.value, Len(ingredients))

\* a standard-convertible line, then a line in g of quantity "0" for an item
\* bought by the unit, and no custom conversion: one warning, canConvert false
C7_Witness ==
  /\ pc = "returned" /\ ret.op = "detectUnitMismatches"
  /\ customConversions = <<>>
  /\ Len(ingredients) = 2
  /\ normalizeUnit(ingredients[1].inventoryItem.unit) = <<"k", "g">>
  /\ ingredients[2].quantity = <<"0">>
  /\ ingredients[2].unit = <<"g">>
  /\ normalizeUnit(ingredients[2].inventoryItem.unit) = <<"u", "n", "i", "t">>
  /\ Len(ret.value) = 1
  /\ ~ret.value[1].canConvert
  /\ ret.value[1].inventoryItemId = ingredients[2].inventoryItem.id

\* warning m is about line l
About(m, l) ==
  /\ m.inventoryItemId = l.inventoryItem.id
  /\ m.recipeUnit = l.unit
  /\ m.inventoryUnit = l.inventoryItem.unit

\* C8: the mismatches of calculateRecipeCostDetailed hold only warnings with
\* canConvert = false: no line resolved through a custom conversion appears
\* in them, and every warning detectUnitMismatches gives with canConvert =
\* false does, as often and in the same order.
C8_OnlyUnresolvedMismatches ==
  (pc = "returned" /\ ret.op = "calculateRecipeCostDetailed") =>
    /\ \A j \in 1..Len(ret.value.mismatches) : ~ret.value.mismatches[j].canConvert
    /\ \A k \in 1..Len(ingredients) :
         ret.value.ingredientCosts[k].result.usedConversion # undefined =>
           \A j \in 1..Len(ret.value.mismatches) :
             ~About(ret.value.mismatches[j], ingredients[k])
    /\ LET all == detectUnitMismatches(ingredients, customConversions)
           kept == {j \in 1..Len(all) : ~all[j].canConvert}
       IN  /\ Len(ret.value.mismatches) = Cardinality(kept)
           /\ \A j \in kept :
                ret.value.mismatches[Cardinality({h \in kept : h <= j})] = all[j]

\* one line resolved through a custom conversion and one line nothing
\* resolves: the second alone is listed
C8_Witness ==
  /\ pc = "returned" /\ ret.op = "calculateRecipeCostDetailed"
  /\ Len(ingredients) = 2
  /\ ret.value.ingredientCosts[1].result.usedConversion # undefined
  /\ ret.value.ingredientCosts[2].result.hasUnitMismatch
  /\ Len(detectUnitMismatches(ingredients, customConversions)) = 2
  /\ Len(ret.value.mismatches) = 1
  /\ About(ret.value.mismatches[1], ingredients[2])

DetailedReturned == pc = "returned" /\ ret.op = "calculateRecipeCostDetailed"

DetectReturned == pc = "returned" /\ ret.op = "detectUnitMismatches"

\* the result calculateRecipeCostDetailed lists for line k
resultOf(k) == ret.value.ingredientCosts[k].result

\* the factor of the exact match or of the standard table for line l
StandardFactorOf(l) == getStandardConversionFactor(l.unit, l.inventoryItem.unit)

\* C22: resolution is tiered: when the normalized units of a line are equal
\* or the standard table resolves them, the standard factor is used,
\* usedConversion is left unset and detectUnitMismatches emits no warning for
\* the line, even if a custom conversion for that item and unit pair exists.
C22_StandardBeforeCustom ==
  /\ DetailedReturned =>
       \A k \in 1..Len(ingredients) :
         ~Unreconciled(ingredients[k]) =>
           /\ resultOf(k).usedConversion = undefined
           /\ ~resultOf(k).hasUnitMismatch
           /\ ValidData(ingredients[k]) =>
                resultOf(k).cost = CostFormula(ingredients[k], StandardFactorOf(ingredients[k]))
  /\ DetectReturned =>
       \A k \in 1..Len(ingredients) :
         ~Unreconciled(ingredients[k]) =>
           \A j \in 1..Len(ret.value) : ~About(ret.value[j], ingredients[k])

\* 200 g of an item bought by the kilogram has been costed through the
\* standard factor while a custom conversion from g to kg was at hand
C22_Witness ==
  /\ DetailedReturned
  /\ Len(ingredients) >= 1
  /\ ingredients[1].quantity = <<"2", "0", "0">>
  /\ normalizeUnit(ingredients[1].inventoryItem.unit) = <<"k", "g">>
  /\ conversionsFor(ingredients[1]) # {}
  /\ resultOf(1).usedConversion = undefined
  /\ resultOf(1).cost = Rat(19, 10)

\* the first conversion of the list authored for line l
FirstFor(l) ==
  customConversions[CHOOSE k \in conversionsFor(l) : \A h \in conversionsFor(l) : k <= h]

\* the unreconciled lines, in line order: one warning is emitted for each
unreconciledLines == SelectSeq(ingredients, Unreconciled)

\* C23: when several custom conversions match the item, recipe unit and
\* inventory unit of a line, calculateIngredientCostWithConversion and
\* detectUnitMismatches both take the first of them in list order: it is
\* the usedConversion and the warning's conversion, and its factor prices
\* the line.
C23_FirstMatchWins ==
  /\ DetailedReturned =>
       \A k \in 1..Len(ingredients) :
         (/\ Unreconciled(ingredients[k])
          /\ ValidData(ingredients[k])
          /\ conversionsFor(ingredients[k]) # {}) =>
           /\ resultOf(k).usedConversion = FirstFor(ingredients[k])
           /\ resultOf(k).cost =
                CostFormula(ingredients[k],
                            parseFloat(FirstFor(ingredients[k]).conversionFactor))
  /\ DetectReturned =>
       \A j \in 1..Len(ret.value) :
         ret.value[j].canConvert => ret.value[j].conversion = FirstFor(unreconciledLines[j])

\* two conversions with different factors match the first line, and the
\* later one in the table of conversions comes first in the list
C23_Witness ==
  /\ DetailedReturned
  /\ Len(ingredients) >= 1
  /\ ValidData(ingredients[1])
  /\ conversionsFor(ingredients[1]) = {1, 2}
  /\ customConversions[1].id = "conv-d"
  /\ customConversions[2].id = "conv-a"
  /\ resultOf(1).usedConversion = customConversions[1]
  /\ resultOf(1).cost # CostFormula(ingredients[1], parseFloat(customConversions[2].conversionFactor))

RecipeCostReturned == pc = "returned" /\ ret.op = "calculateRecipeCost"

BreakdownReturned == pc = "returned" /\ ret.op = "calculateCostBreakdown"

\* the sum of the cost fields of the first k entries of a breakdown
RECURSIVE sumOfCostFields(_, _)
sumOfCostFields(entries, k) ==
  IF k = 0 THEN Zero ELSE Add(sumOfCostFields(entries, k - 1), entries[k].cost)

\* the result calculateIngredientCostWithConversion gives line k
lineResult(k) == calculateIngredientCostWithConversion(ingredients[k], customConversions)

\* C29: the three aggregation entry points agree on the same lines and
\* conversions: calculateRecipeCost, the totalCost of
\* calculateRecipeCostDetailed and the sum of the cost fields of
\* calculateCostBreakdown are all the sum of the line costs; every breakdown
\* entry carries the cost and hasUnitMismatch of
\* calculateIngredientCostWithConversion for its line; the per-line lists have
\* one entry per line in input order; linkedCount = totalIngredients = the
\* number of lines.
C29_EntryPointsAgree ==
  /\ RecipeCostReturned => ret.value = sumOfLineCosts(Len(ingredients))
  /\ DetailedReturned =>
       /\ ret.value.totalCost = sumOfLineCosts(Len(ingredients))
       /\ Len(ret.value.ingredientCosts) = Len(ingredients)
       /\ \A k \in 1..Len(ingredients) :
            /\ ret.value.ingredientCosts[k].ingredient = ingredients[k]
            /\ resultOf(k) = lineResult(k)
       /\ ret.value.linkedCount = Len(ingredients)
       /\ ret.value.totalIngredients = Len(ingredients)
  /\ BreakdownReturned =>
       /\ sumOfCostFields(ret.value, Len(ret.value)) = sumOfLineCosts(Len(ingredients))
       /\ Len(ret.value) = Len(ingredients)
       /\ \A k \in 1..Len(ingredients) :
            /\ ret.value[k].cost = lineResult(k).cost
            /\ ret.value[k].hasUnitMismatch = lineResult(k).hasUnitMismatch
            /\ ret.value[k].quantity = ingredients[k].quantity
            /\ ret.value[k].unit = ingredients[k].unit
            /\ ret.value[k].inventoryItem = ingredients[k].inventoryItem

\* a breakdown of two lines, the first costed through a custom conversion and
\* the second left unresolved, whose costs add up to the total of the
\* detailed result
C29_Witness ==
  /\ BreakdownReturned
  /\ Len(ingredients) = 2
  /\ lineResult(1).usedConversion # undefined
  /\ ret.value[1].cost # Zero
  /\ ret.value[2].hasUnitMismatch
  /\ Add(ret.value[1].cost, ret.value[2].cost)
       = calculateRecipeCostDetailed(ingredients, customConversions).totalCost

\* C28: in the result of calculateRecipeCostDetailed the mismatch list and
\* the per-line results agree: a line has a warning in mismatches if and only
\* if its result has hasUnitMismatch = true, and the number of mismatches is
\* the number of results flagged, whatever the quantities and prices are.
C28_MismatchesAgreeWithFlags ==
  DetailedReturned =>
    /\ \A k \in 1..Len(ingredients) :
         (\E j \in 1..Len(ret.value.mismatches) :
            About(ret.value.mismatches[j], ingredients[k]))
           <=> resultOf(k).hasUnitMismatch
    /\ Len(ret.value.mismatches)
         = Cardinality({k \in 1..Len(ingredients) : resultOf(k).hasUnitMismatch})

----------------------------------------------------------------------------
(* A recipe costed again after a custom conversion has been created *)

\* a conversion for item-1 from g to unit whose factor is no number
UnreadableConversion ==
  [id |-> "conv-x", inventoryItemId |-> "item-1", fromUnit |-> <<"g">>,
   toUnit |-> <<"u", "n", "i", "t">>, conversionFactor |-> <<"a", "b", "c">>]

\* a conversion for item-2, which RecipeConversions has none for
EggConversion ==
  [id |-> "conv-f", inventoryItemId |-> "item-2", fromUnit |-> <<"g">>,
   toUnit |-> <<"u", "n", "i", "t">>, conversionFactor |-> <<"0", ".", "0", "2">>]

\* the conversions a user creates: all of a positive factor
CreatedConversions == RecipeConversions \cup {EggConversion}

InitGrowth ==
  /\ ingredients \in SeqsUpTo(RecipeLines, MaxLines)
  /\ customConversions \in SeqsUpTo(CreatedConversions \cup {UnreadableConversion}, 1)
  /\ unit1 = <<>>
  /\ unit2 = <<>>
  /\ str = <<>>
  /\ itemName = <<>>
  /\ formData = null
  /\ portionCount = <<>>
  /\ portionUnit = <<>>
  /\ pc = "idle"
  /\ idx = 0
  /\ totalCost = Zero
  /\ warnings = <<>>
  /\ ret = [op |-> "none"]

\* a unit conversion is created and the list handed to the engine ends with
\* it; the recipe is costed again afterwards
CreateUnitConversion ==
  /\ pc = "returned"
  /\ Len(customConversions) < MaxConversions
  /\ \E c \in CreatedConversions :
       /\ \A k \in 1..Len(customConversions) : customConversions[k] # c
       /\ customConversions' = Append(customConversions, c)
  /\ pc' = "idle"
  /\ UNCHANGED <<ingredients, unit1, unit2, str, itemName, formData, portionCount, portionUnit, idx, totalCost, warnings, ret>>

NextGrowth ==
  \/ CalculateRecipeCostBegin
  \/ CalculateRecipeCostLoop
  \/ CalculateRecipeCostReturn
  \/ CreateUnitConversion

SpecGrowth == InitGrowth /\ [][NextGrowth]_vars

----------------------------------------------------------------------------
(* Properties of the re-costed recipe, checked under SpecGrowth *)

\* x <= y as numbers: false when either is NaN
Leq(x, y) ==
  /\ ~isNaN(x)
  /\ ~isNaN(y)
  /\ IF x.d = 0 \/ y.d = 0
     THEN x = y \/ x = Rat(-1, 0) \/ y = Infinity
     ELSE x.n * y.d <= y.n * x.d

\* price, purchase quantity and recipe quantity of l are not negative
NonNegativeLine(l) ==
  /\ NonNegative(priceOf(l)) /\ ~isNaN(priceOf(l))
  /\ NonNegative(purchaseQuantityOf(l)) /\ ~isNaN(purchaseQuantityOf(l))
  /\ NonNegative(recipeQuantityOf(l)) /\ ~isNaN(recipeQuantityOf(l))

\* what calculateIngredientCostWithConversion returns for line k under the
\* conversions convs
lineResultWith(k, convs) == calculateIngredientCostWithConversion(ingredients[k], convs)

\* the step in which calculateRecipeCost returns for the second time or later
Recosted == pc = "calculateRecipeCost" /\ pc' = "returned" /\ ret.op = "calculateRecipeCost"

\* the list as it was when the recipe was costed the time before: every
\* later costing follows the creation of one conversion
conversionsBefore == SubSeq(customConversions, 1, Len(customConversions) - 1)

\* some line was a mismatch when the recipe was costed the time before
SomeLineWasMismatched ==
  \E k \in 1..Len(ingredients) : lineResultWith(k, conversionsBefore).hasUnitMismatch

\* the step in which a conversion with a positive factor is appended
Appended ==
  /\ Len(customConversions') = Len(customConversions) + 1
  /\ parseFloat(customConversions'[Len(customConversions')].conversionFactor).n > 0

\* C24: mismatched lines contribute 0, so the total is a lower bound: for
\* lines of non-negative price and quantities, the total returned while
\* some lines are mismatched is less than or equal to the total returned
\* after custom conversions of positive factor have been appended to the
\* list, and the cost of every line that was not mismatched is unchanged.
C24_TotalIsLowerBound ==
  [][/\ (/\ Recosted
         /\ SomeLineWasMismatched
         /\ \A k \in 1..Len(ingredients) : NonNegativeLine(ingredients[k])) =>
          Leq(ret.value, ret'.value)
     /\ Appended =>
          \A k \in 1..Len(ingredients) :
            ~lineResultWith(k, customConversions).hasUnitMismatch =>
              lineResultWith(k, customConversions').cost
                = lineResultWith(k, customConversions).cost]_vars

----------------------------------------------------------------------------
(* The unit resolver on its own *)

InitUnits ==
  /\ ingredients = <<>>
  /\ customConversions = <<>>
  /\ unit1 \in UnitTexts
  /\ unit2 \in SecondUnitTexts
  /\ str = <<>>
  /\ itemName = <<>>
  /\ formData = null
  /\ portionCount = <<>>
  /\ portionUnit = <<>>
  /\ pc = "idle"
  /\ idx = 0
  /\ totalCost = Zero
  /\ warnings = <<>>
  /\ ret = [op |-> "none"]

\* normalizeUnit(unit1)
NormalizeUnit ==
  /\ pc = "idle"
  /\ pc' = "normalized"
  /\ ret' = [op |-> "normalizeUnit", arg |-> unit1, value |-> normalizeUnit(unit1)]
  /\ UNCHANGED <<ingredients, customConversions, unit1, unit2, str, itemName, formData, portionCount, portionUnit, idx, totalCost, warnings>>

\* normalizeUnit applied to the unit it has just returned
NormalizeUnitAgain ==
  /\ pc = "normalized"
  /\ pc' = "returned"
  /\ ret' = [op |-> "normalizeUnit", arg |-> ret.value, value |-> normalizeUnit(ret.value)]
  /\ UNCHANGED <<ingredients, customConversions, unit1, unit2, str, itemName, formData, portionCount, portionUnit, idx, totalCost, warnings>>

\* getStandardConversionFactor(unit1, unit2)
GetStandardConversionFactor ==
  /\ pc = "idle"
  /\ pc' = "returned"
  /\ ret' = [op |-> "getStandardConversionFactor", from |-> unit1, to |-> unit2,
             value |-> getStandardConversionFactor(unit1, unit2)]
  /\ UNCHANGED <<ingredients, customConversions, unit1, unit2, str, itemName, formData, portionCount, portionUnit, idx, totalCost, warnings>>

\* areUnitsCompatible(unit1, unit2)
AreUnitsCompatible ==
  /\ pc = "idle"
  /\ pc' = "returned"
  /\ ret' = [op |-> "areUnitsCompatible", unit1 |-> unit1, unit2 |-> unit2,
             value |-> areUnitsCompatible(unit1, unit2)]
  /\ UNCHANGED <<ingredients, customConversions, unit1, unit2, str, itemName, formData, portionCount, portionUnit, idx, totalCost, warnings>>

\* areUnitsCompatible(unit1, unit1): one text handed in as both units
AreUnitsCompatibleSelf ==
  /\ pc = "idle"
  /\ pc' = "returned"
  /\ ret' = [op |-> "areUnitsCompatible", unit1 |-> unit1, unit2 |-> unit1,
             value |-> areUnitsCompatible(unit1, unit1)]
  /\ UNCHANGED <<ingredients, customConversions, unit1, unit2, str, itemName, formData, portionCount, portionUnit, idx, totalCost, warnings>>

NextUnits ==
  \/ NormalizeUnit
  \/ NormalizeUnitAgain
  \/ GetStandardConversionFactor
  \/ AreUnitsCompatible
  \/ AreUnitsCompatibleSelf

SpecUnits == InitUnits /\ [][NextUnits]_vars

----------------------------------------------------------------------------
(* Properties of the unit resolver, checked under SpecUnits *)

\* C9: whenever getStandardConversionFactor resolves both (a, b) and (b, a),
\* getStandardConversionFactor(a, b) = 1 / getStandardConversionFactor(b, a).
C9_FactorsAreReciprocal ==
  (/\ pc = "returned" /\ ret.op = "getStandardConversionFactor"
   /\ ret.value # null
   /\ getStandardConversionFactor(ret.to, ret.from) # null) =>
    ret.value = Div(One, getStandardConversionFactor(ret.to, ret.from))

\* C10: normalizeUnit is idempotent: applied to the unit it has returned, it
\* returns that unit again.
C10_NormalizeIsIdempotent ==
  (pc = "returned" /\ ret.op = "normalizeUnit") =>
    /\ ret.arg = normalizeUnit(unit1)
    /\ ret.value = ret.arg

\* an alias in capitals between blanks has been normalized twice
C10_Witness ==
  /\ pc = "returned" /\ ret.op = "normalizeUnit"
  /\ unit1 = <<" ", " ", "G", "R", "A", "M", "S", " ">>
  /\ ret.arg = <<"g">>
  /\ ret.value = <<"g">>

\* C11: areUnitsCompatible(u, u) is true for every unit text u, a text in no
\* alias list included.
C11_CompatibleWithItself ==
  (pc = "returned" /\ ret.op = "areUnitsCompatible" /\ ret.unit1 = ret.unit2) =>
    ret.value = TRUE

\* a text in no alias list has been compared with itself
C11_Witness ==
  /\ pc = "returned" /\ ret.op = "areUnitsCompatible"
  /\ ret.unit1 = <<" ", "C", "A", "R", "T", "O", "N">>
  /\ ret.unit2 = ret.unit1
  /\ normalizeUnit(ret.unit1) \notin CanonicalUnits
  /\ ret.value = TRUE

\* the factor the table lists from a to b
TableFactor(a, b) ==
  STANDARD_CONVERSIONS[CHOOSE k \in 1..Len(STANDARD_CONVERSIONS) :
                          /\ STANDARD_CONVERSIONS[k].from = a
                          /\ STANDARD_CONVERSIONS[k].to = b].factor

\* what the documentation of the table promises for the normalized units a, b
DocumentedFactor(a, b) ==
  IF a = b THEN One
  ELSE IF ownStandardEntry(a, b) THEN TableFactor(a, b)
  ELSE IF ownStandardEntry(b, a) THEN Div(One, TableFactor(b, a))
  ELSE null

FactorReturned == pc = "returned" /\ ret.op = "getStandardConversionFactor"

\* the call was for the units a and b, in that order, however spelt
FactorAskedFor(a, b) == normalizeUnit(ret.from) = a /\ normalizeUnit(ret.to) = b

\* C16: getStandardConversionFactor returns 1 for identical normalized units,
\* the direct entry of the table when there is one, the reciprocal of the
\* reverse entry when only that exists, and null otherwise; it never chains
\* two entries, so kg and oz, tbsp and cup, tsp and l are unresolved.
C16_OneHopFactor ==
  FactorReturned =>
    /\ ret.value = DocumentedFactor(normalizeUnit(ret.from), normalizeUnit(ret.to))
    /\ (\/ FactorAskedFor(<<"k", "g">>, <<"o", "z">>)
        \/ FactorAskedFor(<<"t", "b", "s", "p">>, <<"c", "u", "p">>)
        \/ FactorAskedFor(<<"t", "s", "p">>, <<"l">>)) => ret.value = null

CompatibleReturned == pc = "returned" /\ ret.op = "areUnitsCompatible"

\* the table lists a factor between a and b, in one direction or the other
ListedEitherWay(a, b) == ownStandardEntry(a, b) \/ ownStandardEntry(b, a)

\* C17: areUnitsCompatible(a, b) is true exactly when the normalized forms
\* are equal or the table has an entry between them in either direction,
\* which is exactly when getStandardConversionFactor(a, b) is not null; and
\* areUnitsCompatible(a, b) = areUnitsCompatible(b, a).
C17_CompatibleIffListed ==
  CompatibleReturned =>
    /\ ret.value = (\/ normalizeUnit(ret.unit1) = normalizeUnit(ret.unit2)
                    \/ ListedEitherWay(normalizeUnit(ret.unit1), normalizeUnit(ret.unit2)))
    /\ ret.value = (getStandardConversionFactor(ret.unit1, ret.unit2) # null)
    /\ ret.value = areUnitsCompatible(ret.unit2, ret.unit1)

\* the entries of the table whose alias list holds the text
AliasFamilies(alias) ==
  {k \in 1..Len(UNIT_ALIASES) : arrayIncludes(UNIT_ALIASES[k].aliases, alias)}

\* every alias is listed for exactly one canonical unit, and every canonical
\* unit is listed among its own aliases
AliasTableWellFormed ==
  /\ \A alias \in AllAliases : Cardinality(AliasFamilies(alias)) = 1
  /\ \A k \in 1..Len(UNIT_ALIASES) :
       arrayIncludes(UNIT_ALIASES[k].aliases, UNIT_ALIASES[k].canonical)

\* what a scan of the table in any order can return for the text lower
AnyOrderResults(lower) ==
  IF AliasFamilies(lower) = {} THEN {lower}
  ELSE {UNIT_ALIASES[k].canonical : k \in AliasFamilies(lower)}

NormalizeReturned == pc \in {"normalized", "returned"} /\ ret.op = "normalizeUnit"

\* C18: in UNIT_ALIASES every alias belongs to the list of exactly one
\* canonical unit and every canonical unit is in its own list, so
\* normalizeUnit(c) = c for a canonical unit c, and the result of
\* normalizeUnit is the same for every order of iteration over the table.
C18_AliasTableWellFormed ==
  NormalizeReturned =>
    /\ AliasTableWellFormed
    /\ ret.arg \in CanonicalUnits => ret.value = ret.arg
    /\ AnyOrderResults(trim(toLowerCase(ret.arg))) = {ret.value}

\* the alias c, which only cup lists, has been normalized
C18_Witness ==
  /\ NormalizeReturned
  /\ ret.arg = <<"C">>
  /\ AliasFamilies(<<"c">>) # {}
  /\ ret.value = <<"c", "u", "p">>

\* the text with its case changed and whitespace put around it
Respelt(u) == {allUpper(u), toLowerCase(u), <<"\t">> \o u \o <<" ", "\n">>}

\* C19: normalizeUnit lower-cases and trims its input, returns the canonical
\* unit when the result is a known alias and the lower-cased, trimmed input
\* itself otherwise; texts that differ only in case or surrounding whitespace
\* normalize to the same token.
C19_NormalizeIsTotal ==
  NormalizeReturned =>
    /\ trim(toLowerCase(ret.arg)) \in AllAliases =>
         /\ ret.value \in CanonicalUnits
         /\ \E k \in AliasFamilies(trim(toLowerCase(ret.arg))) :
              UNIT_ALIASES[k].canonical = ret.value
    /\ trim(toLowerCase(ret.arg)) \notin AllAliases =>
         ret.value = trim(toLowerCase(ret.arg))
    /\ \A v \in Respelt(ret.arg) : normalizeUnit(v) = ret.value

\* a text in no alias list, in capitals between blanks, has been normalized
C19_Witness ==
  /\ pc = "normalized" /\ ret.op = "normalizeUnit"
  /\ ret.arg = <<" ", "C", "A", "R", "T", "O", "N", " ">>
  /\ ret.value = <<"c", "a", "r", "t", "o", "n">>

----------------------------------------------------------------------------
(* The quantity parser on its own *)

\* longest quantity text drawn character by character
MaxQuantityLen == 5

\* a digit or two, the slash, the blank, a letter and a glyph
QuantityChars == {"0", "1", "2", "/", " ", "a", "[1/2]"}

\* the quantities written in the documentation of the engine, the nine glyphs
\* alone and between blanks, and the name of an inherited member
QuantityExamples ==
  {<<"2", "0", "0">>, <<"0", ".", "5">>, <<"1", "2", ".", "0", "0">>, <<"a", "b", "c">>,
   <<"3", "/", "0">>, <<"1", "/", "4">>, <<"2", " ", "3", "/", "4">>,
   <<"1", ".", "5", "/", "0", ".", "5">>, <<".", "5">>, <<"-", "1", ".", "5">>,
   <<"1", " ", "[3/4]">>, constructorKey}
    \cup {<<fractionMap[k].glyph>> : k \in 1..Len(fractionMap)}
    \cup {<<" ", fractionMap[k].glyph, " ">> : k \in 1..Len(fractionMap)}

ParseTexts == SeqsUpTo(QuantityChars, MaxQuantityLen) \cup QuantityExamples

InitParse ==
  /\ ingredients = <<>>
  /\ customConversions = <<>>
  /\ unit1 = <<>>
  /\ unit2 = <<>>
  /\ str \in ParseTexts
  /\ itemName = <<>>
  /\ formData = null
  /\ portionCount = <<>>
  /\ portionUnit = <<>>
  /\ pc = "idle"
  /\ idx = 0
  /\ totalCost = Zero
  /\ warnings = <<>>
  /\ ret = [op |-> "none"]

\* parseFraction(str)
ParseFraction ==
  /\ pc = "idle"
  /\ pc' = "returned"
  /\ ret' = [op |-> "parseFraction", value |-> parseFraction(str)]
  /\ UNCHANGED <<ingredients, customConversions, unit1, unit2, str, itemName, formData, portionCount, portionUnit, idx, totalCost, warnings>>

NextParse == ParseFraction

SpecParse == InitParse /\ [][NextParse]_vars

----------------------------------------------------------------------------
(* Properties of the quantity parser, checked under SpecParse *)

ParseReturned == pc = "returned" /\ ret.op = "parseFraction"

\* the text without the whitespace around it
theQuantity == trim(str)

\* t is a plain decimal: digits with at most one point, at least one digit
IsDecimal(t) ==
  /\ t # <<>>
  /\ \A k \in 1..Len(t) : isDigit(t[k]) \/ t[k] = "."
  /\ Cardinality({k \in 1..Len(t) : t[k] = "."}) <= 1
  /\ \E k \in 1..Len(t) : isDigit(t[k])

\* the digits of t, its point left out
DigitsOf(t) == SelectSeq(t, isDigit)

\* the number of digits of t after its point
DecimalsOf(t) ==
  IF includes(t, ".") THEN Len(t) - (CHOOSE k \in 1..Len(t) : t[k] = ".") ELSE 0

\* the number a plain decimal denotes
DecimalValue(t) == Rat(digitsValue(DigitsOf(t)), pow10(DecimalsOf(t)))

\* t has the form n/d, n and d being the texts around its only slash
IsQuotient(t) == Cardinality({k \in 1..Len(t) : t[k] = "/"}) = 1

NumeratorOf(t) == trim(split(t, "/")[1])

DenominatorOf(t) == trim(split(t, "/")[2])

\* t is a fraction character
IsGlyph(t) == Len(t) = 1 /\ isFractionGlyph(t[1])

\* t is no quantity at all: empty, or without any digit and no glyph
IsUnparseable(t) == ~IsGlyph(t) /\ \A k \in 1..Len(t) : ~isDigit(t[k])

\* t is n/d with a zero denominator or a part that is no number
IsVoidQuotient(t) ==
  /\ IsQuotient(t)
  /\ \/ ~IsDecimal(NumeratorOf(t))
     \/ ~IsDecimal(DenominatorOf(t))
     \/ DecimalValue(DenominatorOf(t)) = Zero

\* C13: parseFraction yields 0 for every unparseable or empty text and for
\* every n/d whose denominator is zero or whose numerator or denominator is
\* no number, "3/0" and "abc" among them.
C13_UnparseableYieldsZero ==
  (ParseReturned /\ (IsUnparseable(theQuantity) \/ IsVoidQuotient(theQuantity))) =>
    ret.value = Zero

\* the decimal documented for each of the nine fraction characters
GlyphDecimal(c) ==
  CASE c = "[1/4]" -> Rat(25, 100)
    [] c = "[1/2]" -> Rat(5, 10)
    [] c = "[3/4]" -> Rat(75, 100)
    [] c = "[1/3]" -> Rat(333, 1000)
    [] c = "[2/3]" -> Rat(667, 1000)
    [] c = "[1/8]" -> Rat(125, 1000)
    [] c = "[3/8]" -> Rat(375, 1000)
    [] c = "[5/8]" -> Rat(625, 1000)
    [] c = "[7/8]" -> Rat(875, 1000)

\* t is n/d with numbers n and d, d not zero
IsProperQuotient(t) ==
  /\ IsQuotient(t)
  /\ IsDecimal(NumeratorOf(t))
  /\ IsDecimal(DenominatorOf(t))
  /\ DecimalValue(DenominatorOf(t)) # Zero

QuotientValue(t) == Div(DecimalValue(NumeratorOf(t)), DecimalValue(DenominatorOf(t)))

\* the digits t begins with, and what follows them and any whitespace
WholeOf(t) == SubSeq(t, 1, digitPrefixLen(t))

FractionOf(t) == trimStart(SubSeq(t, digitPrefixLen(t) + 1, Len(t)))

\* the fraction of a mixed quantity: a glyph, or digits/digits not over zero
IsFractionOfMixed(f) ==
  \/ IsGlyph(f)
  \/ /\ IsProperQuotient(f)
     /\ ~includes(f, ".")
     /\ ~includes(f, " ")

\* t is "<whole> <fraction>": digits, whitespace, a fraction
IsMixed(t) ==
  /\ digitPrefixLen(t) >= 1
  /\ Len(t) > digitPrefixLen(t)
  /\ isWhitespace(t[digitPrefixLen(t) + 1])
  /\ IsFractionOfMixed(FractionOf(t))

FractionValue(f) == IF IsGlyph(f) THEN GlyphDecimal(f[1]) ELSE QuotientValue(f)

\* C14: for a mixed quantity "<whole> <fraction>" parseFraction returns the
\* whole plus the value of the fraction, for a glyph ("1 [1/2]" is 1.5) and
\* for an ASCII fraction n/d with d not zero ("1 1/2" is 1.5, "2 3/4" is 2.75).
C14_MixedIsWholePlusFraction ==
  (ParseReturned /\ IsMixed(theQuantity)) =>
    ret.value = Add(DecimalValue(WholeOf(theQuantity)), FractionValue(FractionOf(theQuantity)))

\* C15: parseFraction maps a plain decimal to its value, each of the nine
\* fraction characters to its documented decimal, and n/d with numbers n and
\* d, d not zero, to n divided by d, whatever whitespace surrounds the text.
C15_DecimalsGlyphsAndQuotients ==
  ParseReturned =>
    /\ IsDecimal(theQuantity) => ret.value = DecimalValue(theQuantity)
    /\ IsGlyph(theQuantity) => ret.value = GlyphDecimal(theQuantity[1])
    /\ IsProperQuotient(theQuantity) => ret.value = QuotientValue(theQuantity)

\* a quotient between blanks has been parsed
C15_Witness ==
  /\ ParseReturned
  /\ str = <<" ", "1", "/", "2", " ">>
  /\ IsProperQuotient(theQuantity)
  /\ ret.value = Rat(1, 2)

----------------------------------------------------------------------------
(* The conversion suggestion on its own *)

\* the words the suggestion looks for, and one it does not
NameWords ==
  {<<"h", "a", "m">>,
   <<"m", "e", "a", "t">>,
   <<"c", "h", "e", "e", "s", "e">>,
   <<"b", "u", "t", "t", "e", "r">>,
   <<"e", "g", "g">>,
   <<"o", "n", "i", "o", "n">>,
   <<"g", "a", "r", "l", "i", "c">>,
   <<"l", "e", "m", "o", "n">>,
   <<"l", "i", "m", "e">>,
   <<"t", "o", "m", "a", "t", "o">>}

\* names of one or two words, in three spellings; the empty name; a name with
\* a word inside another word
ItemNames ==
  UNION {{a, allUpper(a), capitalised(a)} :
           a \in NameWords \cup {x \o <<" ">> \o y : x \in NameWords, y \in NameWords}}
    \cup {<<>>, <<"G", "r", "a", "h", "a", "m", " ", "c", "r", "a", "c", "k", "e", "r">>}

SuggestFromTexts ==
  {<<"u", "n", "i", "t">>, <<"E", "a", "c", "h", " ">>, <<" ", "P", "C", "S">>, <<"g">>, <<"m", "l">>, <<"k", "g">>, <<"l", "o", "a", "f">>}

SuggestToTexts ==
  {<<"g">>, <<"G", "r", "a", "m", "s", " ">>, <<"m", "l">>, <<"M", "i", "l", "l", "i", "l", "i", "t", "r", "e", "s">>, <<"u", "n", "i", "t">>, <<"k", "g">>, <<"l">>}

InitSuggest ==
  /\ ingredients = <<>>
  /\ customConversions = <<>>
  /\ unit1 \in SuggestFromTexts
  /\ unit2 \in SuggestToTexts
  /\ str = <<>>
  /\ itemName \in ItemNames
  /\ formData = null
  /\ portionCount = <<>>
  /\ portionUnit = <<>>
  /\ pc = "idle"
  /\ idx = 0
  /\ totalCost = Zero
  /\ warnings = <<>>
  /\ ret = [op |-> "none"]

\* suggestConversionFactor(unit1, unit2, itemName)
SuggestConversionFactor ==
  /\ pc = "idle"
  /\ pc' = "returned"
  /\ ret' = [op |-> "suggestConversionFactor",
             value |-> suggestConversionFactor(unit1, unit2, itemName)]
  /\ UNCHANGED <<ingredients, customConversions, unit1, unit2, str, itemName, formData, portionCount, portionUnit, idx, totalCost, warnings>>

NextSuggest == SuggestConversionFactor

SpecSuggest == InitSuggest /\ [][NextSuggest]_vars

----------------------------------------------------------------------------
(* Properties of the conversion suggestion, checked under SpecSuggest *)

SuggestReturned == pc = "returned" /\ ret.op = "suggestConversionFactor"

\* the documented keywords in their documented order, with their grams
DocumentedKeywords ==
  <<[words |-> {<<"h", "a", "m">>, <<"m", "e", "a", "t">>}, grams |-> Rat(100, 1)],
    [words |-> {<<"c", "h", "e", "e", "s", "e">>}, grams |-> Rat(50, 1)],
    [words |-> {<<"b", "u", "t", "t", "e", "r">>}, grams |-> Rat(20, 1)],
    [words |-> {<<"e", "g", "g">>}, grams |-> Rat(60, 1)],
    [words |-> {<<"o", "n", "i", "o", "n">>}, grams |-> Rat(150, 1)],
    [words |-> {<<"g", "a", "r", "l", "i", "c">>}, grams |-> Rat(5, 1)],
    [words |-> {<<"l", "e", "m", "o", "n">>, <<"l", "i", "m", "e">>}, grams |-> Rat(50, 1)]>>

\* the positions of the documented keywords that occur in the name, whatever
\* its case
KeywordsIn(name) ==
  {k \in 1..Len(DocumentedKeywords) :
     \E w \in DocumentedKeywords[k].words : includesText(toLowerCase(name), w)}

\* the grams documented for the name: those of the first keyword in it, 100
\* without any
DocumentedGrams(name) ==
  IF KeywordsIn(name) = {} THEN Rat(100, 1)
  ELSE DocumentedKeywords[CHOOSE k \in KeywordsIn(name) :
                            \A h \in KeywordsIn(name) : k <= h].grams

\* C25: suggestConversionFactor returns a number only for the normalized
\* pairs (unit, g) and (unit, ml): for unit -> g the grams of the first
\* keyword, in the documented order, that occurs in the item name whatever
\* its case, and 100 when none occurs; for unit -> ml always 250; null for
\* every other pair, the reverse pairs g -> unit and ml -> unit included.
C25_SuggestionsAsDocumented ==
  SuggestReturned =>
    ret.value =
      IF normalizeUnit(unit1) = <<"u", "n", "i", "t">> /\ normalizeUnit(unit2) = <<"g">>
      THEN DocumentedGrams(itemName)
      ELSE IF normalizeUnit(unit1) = <<"u", "n", "i", "t">>
                /\ normalizeUnit(unit2) = <<"m", "l">>
           THEN Rat(250, 1)
           ELSE null

\* a name holding cheese before ham has been given the grams of ham
C25_Witness ==
  /\ SuggestReturned
  /\ unit1 = <<"E", "a", "c", "h", " ">>
  /\ unit2 = <<"G", "r", "a", "m", "s", " ">>
  /\ itemName = <<"C", "H", "E", "E", "S", "E", " ", "H", "A", "M">>
  /\ ret.value = Rat(100, 1)

----------------------------------------------------------------------------
(* The inventory create dialog, and a recipe line linked to the created item *)

DialogQuantityTexts == {<<"1">>, <<"0", ".", "3">>, <<"2", ".", "5">>, <<"a", "b", "c">>, <<>>}

DialogUnitTexts == {<<"g">>, <<"k", "g">>, <<"l", "b">>, <<"o", "z">>, <<"L">>, <<"G", "r", "a", "m", "s", " ">>, <<"l", "o", "a", "f">>, <<"C", "a", "s", "e">>, <<>>}

DialogPriceTexts == {<<"0">>, <<"4", ".", "0", "0">>, <<>>}

PortionCountTexts == {<<>>, <<"1", "6">>, <<"0">>}

PortionUnitTexts == {<<>>, <<"s", "l", "i", "c", "e">>, <<"b", "o", "t", "t", "l", "e">>, <<"p", "i", "e", "c", "e">>, <<"g">>}

LinkedQuantityTexts == {<<"2">>, <<"1", "0", "0">>}

LinkedUnitTexts == {<<"s", "l", "i", "c", "e">>, <<"b", "o", "t", "t", "l", "e">>, <<"p", "i", "e", "c", "e">>, <<"g">>, <<"l", "o", "a", "f">>, <<"c", "a", "s", "e">>}

InitDialog ==
  /\ ingredients = <<>>
  /\ customConversions = <<>>
  /\ unit1 = <<>>
  /\ unit2 = <<>>
  /\ str = <<>>
  /\ itemName = <<>>
  /\ formData = null
  /\ portionCount = <<>>
  /\ portionUnit = <<>>
  /\ pc = "closed"
  /\ idx = 0
  /\ totalCost = Zero
  /\ warnings = <<>>
  /\ ret = [op |-> "none"]

\* the live cost preview rendered for the form fd
renderPreview(fd) ==
  [op |-> "getCostPreview",
   value |-> getCostPreview(fd.unitQuantity, fd.unit, fd.unitPrice)]

\* the form after a change, with the preview rendered again
ShowForm(fd) ==
  /\ formData' = fd
  /\ ret' = renderPreview(fd)

\* handleCreate: the dialog opens on an empty form; the variable-weight box
\* stays unchecked in this model
HandleCreate ==
  /\ pc = "closed"
  /\ pc' = "dialog"
  /\ ShowForm([id |-> <<>>, name |-> <<>>, unitQuantity |-> <<"1">>, unit |-> <<"g">>,
               unitPrice |-> <<"0">>, variableWeight |-> FALSE, defaultWeight |-> <<>>])
  /\ portionCount' = <<>>
  /\ portionUnit' = <<>>
  /\ UNCHANGED <<ingredients, customConversions, unit1, unit2, str, itemName, idx, totalCost, warnings>>

\* onChange of the unit quantity field
SetUnitQuantity ==
  /\ pc = "dialog"
  /\ \E t \in DialogQuantityTexts : ShowForm([formData EXCEPT !.unitQuantity = t])
  /\ UNCHANGED <<ingredients, customConversions, unit1, unit2, str, itemName, portionCount, portionUnit, pc, idx, totalCost, warnings>>

\* onChange of the unit field: a container unit suggests its portion unit,
\* any other unit clears the portion fields
SetUnit ==
  /\ pc = "dialog"
  /\ \E newUnit \in DialogUnitTexts :
       /\ ShowForm([formData EXCEPT !.unit = newUnit])
       /\ IF isContainerUnit(newUnit)
          THEN /\ portionUnit' = getSuggestedPortionUnit(newUnit)
               /\ UNCHANGED portionCount
          ELSE /\ portionUnit' = <<>>
               /\ portionCount' = <<>>
  /\ UNCHANGED <<ingredients, customConversions, unit1, unit2, str, itemName, pc, idx, totalCost, warnings>>

\* onChange of the unit price field
SetUnitPrice ==
  /\ pc = "dialog"
  /\ \E t \in DialogPriceTexts : ShowForm([formData EXCEPT !.unitPrice = t])
  /\ UNCHANGED <<ingredients, customConversions, unit1, unit2, str, itemName, portionCount, portionUnit, pc, idx, totalCost, warnings>>

\* onChange of the number of portions, shown for a container unit only
SetPortionCount ==
  /\ pc = "dialog"
  /\ isContainerUnit(formData.unit)
  /\ \E t \in PortionCountTexts : portionCount' = t
  /\ UNCHANGED <<ingredients, customConversions, unit1, unit2, str, itemName, formData, portionUnit, pc, idx, totalCost, warnings, ret>>

\* onChange of the portion unit name, shown for a container unit only
SetPortionUnit ==
  /\ pc = "dialog"
  /\ isContainerUnit(formData.unit)
  /\ \E t \in PortionUnitTexts : portionUnit' = t
  /\ UNCHANGED <<ingredients, customConversions, unit1, unit2, str, itemName, formData, portionCount, pc, idx, totalCost, warnings, ret>>

\* the conversion posted by createMutation.onSuccess for the created item
portionConversion(newItem) ==
  [id |-> "conv-p", inventoryItemId |-> newItem.id, fromUnit |-> formData.unit,
   toUnit |-> portionUnit, conversionFactor |-> portionCount]

\* the item the server answers with
createdItem(normalizedData) == [normalizedData EXCEPT !.id = "item-1"]

\* handleSaveDialog, createMutation and its onSuccess: the normalized item is
\* created, the portion conversion is posted when both portion fields are
\* filled in, and the dialog is closed and cleared
HandleSaveDialog ==
  /\ pc = "dialog"
  /\ ~(normalizeToGrams(formData).variableWeight
         /\ trim(normalizeToGrams(formData).defaultWeight) = <<>>)
  /\ pc' = "saved"
  /\ ret' = [op |-> "createMutation", value |-> createdItem(normalizeToGrams(formData))]
  /\ customConversions' =
       IF portionCount # <<>> /\ portionUnit # <<>>
       THEN Append(customConversions, portionConversion(createdItem(normalizeToGrams(formData))))
       ELSE customConversions
  /\ formData' = null
  /\ portionCount' = <<>>
  /\ portionUnit' = <<>>
  /\ UNCHANGED <<ingredients, unit1, unit2, str, itemName, idx, totalCost, warnings>>

\* a recipe line is written for the created item
LinkRecipeLine ==
  /\ pc = "saved"
  /\ pc' = "idle"
  /\ \E q \in LinkedQuantityTexts, u \in LinkedUnitTexts :
       ingredients' = <<[quantity |-> q, unit |-> u, inventoryItem |-> ret.value]>>
  /\ UNCHANGED <<customConversions, unit1, unit2, str, itemName, formData, portionCount, portionUnit, idx, totalCost, warnings, ret>>

NextDialog ==
  \/ HandleCreate
  \/ SetUnitQuantity
  \/ SetUnit
  \/ SetUnitPrice
  \/ SetPortionCount
  \/ SetPortionUnit
  \/ HandleSaveDialog
  \/ LinkRecipeLine
  \/ CalculateIngredientCostWithConversion

SpecDialog == InitDialog /\ [][NextDialog]_vars

----------------------------------------------------------------------------
(* Properties of the inventory dialog, checked under SpecDialog *)

\* the portion conversion the dialog created, when it created one
PortionConversionCreated == customConversions # <<>>

theConversion == customConversions[1]

\* C26: a conversion created by the dialog (from the purchase unit to the
\* portion unit, factor = portions in one purchase unit) makes a line of the
\* created item written in the portion unit cost
\* (price / purchase quantity) x recipe quantity / portions, with no
\* mismatch, whenever the line's data and the number of portions are usable.
C26_PortionLinesAreCosted ==
  (/\ LineCostReturned
   /\ PortionConversionCreated
   /\ normalizeUnit(theLine.unit) = normalizeUnit(theConversion.toUnit)
   /\ ValidData(theLine)
   /\ truthy(parseFloat(theConversion.conversionFactor)))
    => /\ ret.value.hasUnitMismatch = FALSE
       /\ ret.value.cost = Div(Mul(Div(priceOf(theLine), purchaseQuantityOf(theLine)),
                                   recipeQuantityOf(theLine)),
                               parseFloat(theConversion.conversionFactor))

\* the dialog is open and shows the preview of its form
PreviewShown == pc = "dialog" /\ ret.op = "getCostPreview"

\* the text is empty, unparseable or zero as a number
MissingOrZero(t) == isNaN(parseFloat(t)) \/ parseFloat(t) = Zero

\* C27: the preview matches what a save would store: when it is not null its
\* displayUnit is the unit normalizeToGrams produces and its costPerUnit is
\* the price divided by the quantity normalizeToGrams stores; and it is null
\* exactly when the quantity, the price or the unit is missing, unparseable
\* or zero.
C27_PreviewMatchesStored ==
  PreviewShown =>
    /\ ret.value # null =>
         /\ ret.value.displayUnit = normalizeToGrams(formData).unit
         /\ ret.value.costPerUnit =
              Div(parseFloat(formData.unitPrice),
                  parseFloat(normalizeToGrams(formData).unitQuantity))
    /\ ret.value = null <=>
         \/ MissingOrZero(formData.unitQuantity)
         \/ MissingOrZero(formData.unitPrice)
         \/ formData.unit = <<>>

\* a recipe line of q u linked to the item
linkedLine(q, u, item) == [quantity |-> q, unit |-> u, inventoryItem |-> item]

\* the cost and the mismatch flag of a result
costAndFlag(result) == <<result.cost, result.hasUnitMismatch>>

\* C30: saving does not change what recipes cost: every recipe line costs
\* the same, with the same mismatch flag, against the item as typed and
\* against the item as normalizeToGrams stored it.
C30_NormalizingKeepsCosts ==
  [][(pc = "dialog" /\ pc' = "saved") =>
       \A q \in LinkedQuantityTexts, u \in LinkedUnitTexts :
         costAndFlag(calculateIngredientCostWithConversion(linkedLine(q, u, formData), <<>>))
           = costAndFlag(calculateIngredientCostWithConversion(
                           linkedLine(q, u, ret'.value), <<>>))]_vars

====
